---- MODULE Spec2Model ----
(***************************************************************************)
(* Test-execution engine of the power-consumption test runner:             *)
(*   server.Server   (handleStart / handleStop / handleAddMarker)          *)
(*   server.Broker   (start, ServeHTTP, Broadcast)                         *)
(*   runner.Runner   (RunTest, collectData, addEvent, runInterfaceRamping) *)
(*   loadgen.NetworkLoadGenerator (per-interface meters and targets)       *)
(* Goroutines are modelled as processes with a program counter each; one   *)
(* action is one step a goroutine takes between two scheduling points.     *)
(***************************************************************************)
EXTENDS Integers, Sequences, FiniteSets, TLC

----------------------------------------------------------------------------
(* Bounds of the model                                                      *)

\* number of start requests the server accepts in one behaviour
MaxRuns == 2
\* number of DataPoints one result may hold
MaxPoints == 2
\* capacity of the event channel (make(chan Event, 100) in the source)
EventChanCap == 2
\* number of markers accepted in one behaviour
MaxMarkers == 1
\* last instant of the Load-phase clock
MaxTime == 1
\* last instant of the wall clock the meters read, in seconds
MaxWall == 3
\* number of bytes (in packets) a meter counts between two readings of
\* the same clock value
MaxSends == 1
\* number of interfaces one configuration may name
MaxIfaces == 2
\* number of ticks one RunTest takes from its ticker
MaxTicks == 3
\* number of subscribers of the broker (connections to /events)
MaxClients == 1
\* number of bursts the Layer 2 generator counts in one behaviour
MaxBursts == 2
\* number of consecutive write errors a worker bears (const maxErrors = 100
\* in the source)
maxErrors == 2
\* largest target of a rate computation, in bytes per second
MaxTarget == 12
\* largest number of workers of a rate computation
MaxWorkers == 2
\* largest packet size of a rate computation, in bytes
MaxPacket == 3

Runs == 1..MaxRuns
Chans == 1..MaxRuns
IfIdx == 1..MaxIfaces
Clients == 1..MaxClients

----------------------------------------------------------------------------
(* Inputs                                                                   *)

\* a duration is 0 (absent) or positive
Durations == {0, 1}
\* per-interface pre-delays
PreTimes == {0, 1}
\* marker messages
Messages == {"m"}

PhasePreTest == "pre"
PhaseLoad == "load"
PhasePostTest == "post"

EventPhaseChange == "phase"
EventRampStep == "ramp"
EventInterfaceStart == "iface_start"
EventCustom == "custom"

\* phaseNames of collectData
phaseNames(phase) ==
    CASE phase = PhasePreTest -> "Pre-Test Baseline"
      [] phase = PhaseLoad -> "Load Test"
      [] phase = PhasePostTest -> "Post-Test Baseline"

\* loadgen.InterfaceConfig as built by handleStart for a selected interface
InterfaceConfigs ==
    [Name : {"eth0", "eth1"}, TargetThroughput : {0, 4}, RampSteps : {0, 2},
     PreTime : PreTimes]

\* the interface handleStart substitutes when no interface is selected
DefaultInterfaceConfig ==
    [Name |-> "", TargetThroughput |-> 0, RampSteps |-> 0, PreTime |-> 0]

\* the form value "interfaces": no interface, one interface or two
InterfaceForms ==
    {<< >>} \cup {<<ic>> : ic \in InterfaceConfigs}
            \cup {<<a, b>> : a \in {ic \in InterfaceConfigs : ic.Name = "eth0"},
                             b \in {ic \in InterfaceConfigs : ic.Name = "eth1"}}

\* C23 mutant: handleStart passes an empty selection on as it is.
C23_Mutant(form) == form

\* interfaceConfigs of handleStart for the selected interfaces: "If no
\* interfaces selected, use OS routing with default config"
interfaceConfigs(form) ==
    IF Len(form) = 0 THEN <<DefaultInterfaceConfig>> ELSE form

\* runner.TestConfig as built by handleStart; Duration is never 0 there
TestConfigs ==
    [PreTestTime : Durations, Duration : {1}, PostTestTime : Durations,
     LoadEnabled : BOOLEAN, TargetIP : {"", "ip"},
     InterfaceConfigs : {interfaceConfigs(f) : f \in InterfaceForms}]

NoConfig ==
    [PreTestTime |-> 0, Duration |-> 0, PostTestTime |-> 0,
     LoadEnabled |-> FALSE, TargetIP |-> "", InterfaceConfigs |-> << >>]

\* key of an interface in NetworkLoadGenerator.interfaceThroughputs
MeterName(name) == IF name = "" THEN "default" ELSE name

\* names of the interfaces of the Layer 2 generator
L2Names == {"eth0", "eth1"}

\* name of an interface in the runner's messages
DisplayName(name) == IF name = "" THEN "OS-routing" ELSE name

----------------------------------------------------------------------------
\* the performance counter runs up to MaxCounter
MaxCounter == 12

\* the goroutines that call PreciseSleep
Sleepers == {1, 2}

\* no due time: the waitable timer is not active
NoDue == -1

VARIABLES
    \* server.Server
    cancel,         \* s.cancel: 0 (nil) or the run whose root context it cancels
    accepted,       \* number of start requests accepted so far
    lastResp,       \* the last HTTP response written: <<endpoint, body>>
    \* contexts
    ctxDone,        \* per run: root context cancelled
    loadDone,       \* per run: loadCancel() was called
    \* runner.Runner
    testActive,     \* r.testActive
    eventChan,      \* r.eventChan: 0 (nil) or a channel
    chanBuf,        \* per channel: buffered events
    chanClosed,     \* per channel: closed
    chanLog,        \* per channel: every event ever placed on it, in order
    crashed,        \* the process panicked
    dropped,        \* per channel: an event was dropped because it was full
    markers,        \* number of markers accepted so far
    \* one RunTest execution per run
    config,         \* per run: its TestConfig
    pc,             \* per run: position of RunTest
    result,         \* per run: result.DataPoints
    pendingEvents,  \* per run: pendingEvents
    cpc,            \* per run: the event collector goroutine
    cchan,          \* per run: the channel the collector ranges over
    ticks,          \* per run: number of ticks taken from ticker.C (the time t)
    \* the goroutine of handleStart that forwards updateChan to the broker
    upc,            \* per run: position of the forwarder
    udp,            \* per run: the DataPoint it received, << >> when none
    updClosed,      \* per run: updateChan is closed
    \* server.Broker
    sendq,          \* the senders blocked in Broadcast, in order of arrival
    bpc,            \* position of Broker.start: "select" or "fanout"
    bmsg,           \* the message it fans out
    btodo,          \* the clients it has still to send it to
    clients,        \* b.clients
    sub,            \* per client: position of its ServeHTTP
    sinkLog,        \* every message received from b.messages, in order
    \* the goroutines of the Load phase, per run and interface
    loadClock,      \* per run: time since the Load phase started its interfaces
    ipc,            \* interface start goroutine
    rpc,            \* runInterfaceRamping goroutine
    rstep,          \* its loop variable step
    wrk,            \* the workers of the interface
    \* loadgen.NetworkLoadGenerator (one per process)
    its,            \* g.interfaceThroughputs: name -> InterfaceThroughput
    g,              \* g.bytesSent, g.lastUpdate, g.throughput
    wall,           \* wall clock read by the meters, in seconds
    \* the UDP and TCP workers of an interface, per run and interface
    wpc,            \* position in the loop: "top" or "paced"
    wdelay,         \* delay of getWorkerDelayForInterface for the next packet
    \* loadgen.Layer2Generator and its workers, per interface name
    layer2Gen,      \* lg.layer2Gen: nil, or its targetThroughput, stopChans,
                    \* bytesSent, packetsSent and interfaceBytesSent
    stopClosed,     \* per name: the stop channel and the handle are closed
    l2ctxDone,      \* the context StartLayer2 was called with is cancelled
    l2pc,           \* per name: position of layer2Worker
    l2ic,           \* per name: the ifaceConfig layer2Worker was started with
    burstDelay,     \* per name: burstDelay of layer2Worker
    burst,          \* per name: i, burstPackets and errorCount of layer2Worker
    payloadSize,    \* per name: payloadSize of layer2Worker
    l2written,      \* per name: frames the handle has taken since StartLayer2
    \* the goroutine of handleStart after RunTest, and the database
    rerr,           \* per run: RunTest returned an error
    saveCalls,      \* per run: number of calls of saveTestToDatabase
    db,             \* the runs whose record is in the database
    \* history of the UDP and TCP workers, per run and interface
    werrs,          \* number of writes that failed since the last good one
    \* the rate computation
    dcall,          \* the latest call: target, workers, packetSize and delay
    dprev,          \* the call before it
    qpc,            \* the performance counter of the machine
    timerInit,      \* "none", or how initHighResTimer ended: "ok", "failed"
    timer,          \* highResTimer: its due time, or NoDue, and its signal
    spc,            \* per sleeper: where its call of PreciseSleep is
    sleep           \* per sleeper: entry (counter), duration and target

serverVars == <<cancel, accepted, lastResp>>
ctxVars == <<ctxDone, loadDone>>
chanVars == <<chanBuf, chanLog, dropped>>
runnerVars == <<testActive, eventChan, chanClosed, crashed, markers>>
runVars == <<config, pc, result, pendingEvents, cpc, cchan>>
ifaceVars == <<loadClock, ipc, rpc, rstep, wrk>>
lgVars == <<its, g, wall>>
fwdVars == <<upc, udp, updClosed>>
brokerVars == <<sendq, bpc, bmsg, btodo, clients, sub, sinkLog>>
sinkVars == <<fwdVars, brokerVars>>
paceVars == <<wpc, wdelay>>
l2Vars == <<layer2Gen, stopClosed, l2ctxDone, l2pc, l2ic, burstDelay, burst,
           payloadSize, l2written>>
storeVars == <<rerr, saveCalls, db>>
sleepVars == <<qpc, timerInit, timer, spc, sleep>>
restVars == <<werrs, dcall, dprev, sleepVars>>
extVars == <<storeVars, restVars>>

vars == <<serverVars, ctxVars, chanVars, runnerVars, runVars, ifaceVars,
          lgVars, ticks, sinkVars, paceVars, l2Vars, extVars>>

----------------------------------------------------------------------------
Init ==
    /\ cancel = 0
    /\ accepted = 0
    /\ lastResp = <<"", "">>
    /\ ctxDone = [r \in Runs |-> FALSE]
    /\ loadDone = [r \in Runs |-> FALSE]
    /\ testActive = FALSE
    /\ eventChan = 0
    /\ chanBuf = [c \in Chans |-> << >>]
    /\ chanClosed = [c \in Chans |-> FALSE]
    /\ chanLog = [c \in Chans |-> << >>]
    /\ crashed = FALSE
    /\ dropped = [c \in Chans |-> FALSE]
    /\ markers = 0
    /\ config = [r \in Runs |-> NoConfig]
    /\ pc = [r \in Runs |-> "idle"]
    /\ result = [r \in Runs |-> << >>]
    /\ pendingEvents = [r \in Runs |-> << >>]
    /\ cpc = [r \in Runs |-> "none"]
    /\ cchan = [r \in Runs |-> 0]
    /\ loadClock = [r \in Runs |-> 0]
    /\ ipc = [r \in Runs |-> [i \in IfIdx |-> "none"]]
    /\ rpc = [r \in Runs |-> [i \in IfIdx |-> "none"]]
    /\ rstep = [r \in Runs |-> [i \in IfIdx |-> 0]]
    /\ wrk = [r \in Runs |-> [i \in IfIdx |-> "none"]]
    /\ its = << >>
    /\ g = [bytesSent |-> 0, lastUpdate |-> 0, throughput |-> 0]
    /\ wall = 0
    /\ ticks = [r \in Runs |-> 0]
    /\ upc = [r \in Runs |-> "none"]
    /\ udp = [r \in Runs |-> << >>]
    /\ updClosed = [r \in Runs |-> FALSE]
    /\ sendq = << >>
    /\ bpc = "select"
    /\ bmsg = << >>
    /\ btodo = << >>
    /\ clients = {}
    /\ sub = [c \in Clients |-> "absent"]
    /\ sinkLog = << >>
    /\ wpc = [r \in Runs |-> [i \in IfIdx |-> "top"]]
    /\ wdelay = [r \in Runs |-> [i \in IfIdx |-> 0]]
    /\ layer2Gen = [nil |-> TRUE, targetThroughput |-> << >>, stopChans |-> {},
                    bytesSent |-> 0, packetsSent |-> 0,
                    interfaceBytesSent |-> [n \in L2Names |-> 0]]
    /\ stopClosed = [n \in L2Names |-> FALSE]
    /\ l2ctxDone = FALSE
    /\ l2pc = [n \in L2Names |-> "none"]
    /\ l2ic = [n \in L2Names |-> DefaultInterfaceConfig]
    /\ burstDelay = [n \in L2Names |-> 0]
    /\ burst = [n \in L2Names |->
                   [i |-> 0, burstPackets |-> 0, errorCount |-> 0]]
    /\ payloadSize = [n \in L2Names |-> 0]
    /\ l2written = [n \in L2Names |-> 0]
    /\ rerr = [r \in Runs |-> FALSE]
    /\ saveCalls = [r \in Runs |-> 0]
    /\ db = {}
    /\ werrs = [r \in Runs |-> [i \in IfIdx |-> 0]]
    /\ dcall = [target |-> 0, workers |-> 0, packetSize |-> 0, delay |-> 0]
    /\ dprev = [target |-> 0, workers |-> 0, packetSize |-> 0, delay |-> 0]
    /\ qpc = 0
    /\ timerInit = "none"
    /\ timer = [due |-> NoDue, signaled |-> FALSE]
    /\ spc = [w \in Sleepers |-> "idle"]
    /\ sleep = [w \in Sleepers |-> [entry |-> 0, duration |-> 0, target |-> 0]]

----------------------------------------------------------------------------
(* Helpers                                                                  *)

Phases == {PhasePreTest, PhaseLoad, PhasePostTest}

\* the Load sub-context is done when it or its parent was cancelled
LoadCtxDone(r) == loadDone[r] \/ ctxDone[r]

\* Event{Type, Message, Timestamp}: Src and Seq stand for the timestamp, they
\* tell the occurrences of events apart (producing run, marker number)
Event(type, message, src, seq) ==
    [Type |-> type, Message |-> message, Src |-> src, Seq |-> seq]

\* the condition under which RunTest creates the Load sub-context and
\* starts the interfaces (loadCancel != nil afterwards)
LoadStarted(r) == config[r].LoadEnabled /\ config[r].TargetIP # ""

\* the interface configurations of run r, by position
IC(r, i) == config[r].InterfaceConfigs[i]
HasIface(r, i) == i \in 1..Len(config[r].InterfaceConfigs)

\* the condition under which an interface ramps
Ramping(ic) == ic.RampSteps > 0 /\ ic.TargetThroughput > 0

\* every goroutine of run q has returned
Finished(q) ==
    /\ pc[q] \in {"idle", "done"}
    /\ cpc[q] \in {"none", "exited"}
    /\ \A i \in IfIdx : /\ ipc[q][i] \in {"none", "returned"}
                        /\ rpc[q][i] \in {"none", "returned"}
                        /\ wrk[q][i] \in {"none", "exited"}

\* no goroutine of an earlier run is left
Quiescent == \A q \in Runs : Finished(q)

\* f without the locals of the runs whose goroutines have all returned
Live(f, init) == [q \in Runs |-> IF Finished(q) THEN init ELSE f[q]]

NoIface == [i \in IfIdx |-> "none"]
ZeroIface == [i \in IfIdx |-> 0]

\* cancelling a context wakes the goroutines blocked in a select on its
\* Done channel: the pre-delay waits and the ramp's step sleep
WakeIface(r) ==
    [i \in IfIdx |-> IF ipc[r][i] = "waiting" THEN "returned" ELSE ipc[r][i]]
WakeRamp(r) ==
    [i \in IfIdx |-> IF rpc[r][i] \in {"waiting", "sleep"} THEN "returned"
                     ELSE rpc[r][i]]

\* Runner.addEvent: non-blocking send on r.eventChan, under eventMu
addEvent(ev) ==
    IF eventChan # 0 /\ Len(chanBuf[eventChan]) < EventChanCap
    THEN /\ chanBuf' = [chanBuf EXCEPT ![eventChan] = Append(@, ev)]
         /\ chanLog' = [chanLog EXCEPT ![eventChan] = Append(@, ev)]
         /\ dropped' = dropped
    ELSE /\ UNCHANGED <<chanBuf, chanLog>>
         /\ dropped' = IF eventChan # 0
                       THEN [dropped EXCEPT ![eventChan] = TRUE]
                       ELSE dropped

\* NetworkLoadGenerator.GetThroughput
GetThroughput == g.throughput

\* NetworkLoadGenerator.GetThroughputByInterface
GetThroughputByInterface == [n \in DOMAIN its |-> its[n].throughput]

\* NetworkLoadGenerator.GetTargetThroughputByInterface
GetTargetThroughputByInterface ==
    [n \in DOMAIN its |-> its[n].targetThroughput]

\* a nil map
NilMap == << >>

----------------------------------------------------------------------------
(* server.Server                                                            *)

\* handleStart, s.cancel == nil: the request is accepted, the root context
\* is created and the goroutine that calls RunTest is launched. The locals
\* of goroutines that have returned are dead and leave the state here.
handleStart_accept(cfg) ==
    /\ ~crashed
    /\ cancel = 0
    /\ accepted < MaxRuns
    /\ LET r == accepted + 1 IN
         /\ cancel' = r
         /\ accepted' = r
         /\ lastResp' = <<"start", "Test started">>
         /\ config' = [Live(config, NoConfig) EXCEPT ![r] = cfg]
         /\ pc' = [pc EXCEPT ![r] = "spawned"]
         /\ result' = Live(result, << >>)
         /\ pendingEvents' = Live(pendingEvents, << >>)
         /\ cpc' = Live(cpc, "none")
         /\ cchan' = Live(cchan, 0)
         /\ loadDone' = Live(loadDone, FALSE)
         /\ loadClock' = Live(loadClock, 0)
         /\ ipc' = Live(ipc, NoIface)
         /\ rpc' = Live(rpc, NoIface)
         /\ wrk' = Live(wrk, NoIface)
         /\ rstep' = Live(rstep, ZeroIface)
         /\ chanLog' = Live(chanLog, << >>)
         /\ dropped' = Live(dropped, FALSE)
         /\ ticks' = Live(ticks, 0)
    /\ UNCHANGED <<paceVars, l2Vars, extVars>>
    /\ UNCHANGED <<ctxDone, chanBuf, runnerVars, lgVars, sinkVars>>

\* handleStart, s.cancel != nil: 409 "Test already running"
handleStart_reject ==
    /\ ~crashed
    /\ cancel # 0
    /\ lastResp' = <<"start", "Test already running">>
    /\ UNCHANGED <<paceVars, l2Vars, extVars>>
    /\ UNCHANGED <<cancel, accepted, ctxVars, chanVars, runnerVars, runVars,
                   ifaceVars, lgVars, ticks, sinkVars>>

\* handleStop
handleStop ==
    /\ ~crashed
    /\ IF cancel # 0
       THEN /\ ctxDone' = [ctxDone EXCEPT ![cancel] = TRUE]
            /\ ipc' = [ipc EXCEPT ![cancel] = WakeIface(cancel)]
            /\ rpc' = [rpc EXCEPT ![cancel] = WakeRamp(cancel)]
            /\ cancel' = 0
            /\ lastResp' = <<"stop", "Test stopped">>
       ELSE /\ lastResp' = <<"stop", "No test running">>
            /\ UNCHANGED <<cancel, ctxDone, ipc, rpc>>
    /\ UNCHANGED <<paceVars, l2Vars, extVars>>
    /\ UNCHANGED <<accepted, loadDone, chanVars, runnerVars, runVars,
                   loadClock, rstep, wrk, lgVars, ticks, sinkVars>>

\* the message of the deferred function of handleStart's goroutine:
\* "event: done\ndata: Test finished\n\n"
DoneMessage == <<"done", "Test finished">>

\* C12 mutant: Broadcast sends the message twice.
C12_Mutant(q, run, msg) ==
    q \o <<[run |-> run, msg |-> msg], [run |-> run, msg |-> msg]>>

\* Broker.Broadcast, b.messages <- msg on an unbuffered channel: the sender
\* run blocks behind the senders that came before it
Broadcast(q, run, msg) == Append(q, [run |-> run, msg |-> msg])

\* the goroutine of handleStart saves the result: err == nil (s.db is
\* never nil, main stops when the database cannot be opened)
Saves(r) == ~rerr[r]

\* the goroutine of handleStart after RunTest has returned: without an
\* error the result is saved, which succeeds (saved) or fails and is only
\* logged then;
\* close(updateChan), then the deferred function sets s.cancel = nil and
\* calls s.broker.Broadcast with the done message, where it blocks until
\* the broker receives it
handleStart_done(r, saved) ==
    /\ ~crashed
    /\ pc[r] = "returned"
    /\ pc' = [pc EXCEPT ![r] = "signal"]
    /\ IF Saves(r)
       THEN /\ saveCalls' = [saveCalls EXCEPT ![r] = @ + 1]
            /\ db' = IF saved THEN db \cup {r} ELSE db
       ELSE UNCHANGED <<saveCalls, db>>
    /\ cancel' = 0
    /\ updClosed' = [updClosed EXCEPT ![r] = TRUE]
    /\ sendq' = Broadcast(sendq, r, DoneMessage)
    /\ UNCHANGED <<paceVars, l2Vars, rerr, restVars>>
    /\ UNCHANGED <<accepted, lastResp, ctxVars, chanVars, runnerVars, config,
                   result, pendingEvents, cpc, cchan, ifaceVars, lgVars,
                   ticks, upc, udp, bpc, bmsg, btodo, clients, sub, sinkLog>>

\* Runner.IsTestActive
IsTestActive == testActive

\* Runner.AddCustomMarker returns true: a test is active, the channel
\* exists and takes the event without blocking
AddCustomMarker ==
    /\ testActive
    /\ eventChan # 0
    /\ Len(chanBuf[eventChan]) < EventChanCap

\* C15 mutant: every marker with a message is accepted.
C15_Mutant(message) == message # ""

\* handleAddMarker answers 200 "Marker added"
MarkerAccepted(message) ==
    message # "" /\ IsTestActive /\ AddCustomMarker

\* the body of the response of handleAddMarker: 400, 409, 500 or 200
MarkerResponse(message) ==
    IF message = "" THEN "Message is required"
    ELSE IF ~IsTestActive THEN "No test running"
    ELSE IF ~AddCustomMarker THEN "Failed to add marker"
    ELSE "Marker added"

\* handleAddMarker and Runner.AddCustomMarker: the marker is accepted (200)
\* when the message is not empty, a test is active and the channel has
\* room; a rejected marker is answered and changes nothing else
handleAddMarker(message) ==
    /\ ~crashed
    /\ MarkerAccepted(message) => markers < MaxMarkers
    /\ IF MarkerAccepted(message)
       THEN /\ markers' = markers + 1
            /\ lastResp' = <<"marker", "Marker added">>
            /\ addEvent(Event(EventCustom, <<message>>, eventChan,
                              markers + 1))
       ELSE /\ lastResp' = <<"marker", MarkerResponse(message)>>
            /\ UNCHANGED <<markers, chanVars>>
    /\ UNCHANGED <<paceVars, l2Vars, extVars>>
    /\ UNCHANGED <<cancel, accepted, ctxVars, testActive, eventChan,
                   chanClosed, crashed, runVars, ifaceVars, lgVars, ticks,
                   sinkVars>>

----------------------------------------------------------------------------
(* runner.Runner.RunTest                                                    *)

\* C25 mutant: collectData runs every phase, whatever its duration.
C25_Mutant(cfg, phase) == 1

\* the duration collectData is called with for a phase
PhaseDuration(cfg, phase) ==
    CASE phase = PhasePreTest -> cfg.PreTestTime
      [] phase = PhaseLoad -> cfg.Duration
      [] phase = PhasePostTest -> cfg.PostTestTime

\* where RunTest continues when collectData(phase) returns nil
AfterPhase(phase) ==
    CASE phase = PhasePreTest -> "loadSpawn"
      [] phase = PhaseLoad -> "loadStop"
      [] phase = PhasePostTest -> "defer"

\* position of RunTest just before it reaches collectData(phase)
BeforePhase(phase) ==
    CASE phase = PhasePreTest -> "preEnter"
      [] phase = PhaseLoad -> "loadEnter"
      [] phase = PhasePostTest -> "postEnter"

\* the goroutine of handleStart from its launch, and RunTest up to the
\* launch of the event collector: updateChan is made and its forwarder
\* launched, the result is empty, a new event channel replaces
\* r.eventChan, r.testActive = true
RunTest_begin(r) ==
    /\ ~crashed
    /\ pc[r] = "spawned"
    /\ pc' = [pc EXCEPT ![r] = "preEnter"]
    /\ eventChan' = r
    /\ testActive' = TRUE
    /\ cpc' = [cpc EXCEPT ![r] = "spawned"]
    /\ upc' = [upc EXCEPT ![r] = "loop"]
    /\ UNCHANGED <<paceVars, l2Vars, extVars>>
    /\ UNCHANGED <<serverVars, ctxVars, chanVars, chanClosed, crashed, markers,
                   config, result, pendingEvents, cchan, ifaceVars, lgVars,
                   ticks, udp, updClosed, brokerVars>>

\* the event collector goroutine evaluates r.eventChan (without the lock)
\* when it starts to range over it
collector_start(r) ==
    /\ ~crashed
    /\ cpc[r] = "spawned"
    /\ cpc' = [cpc EXCEPT ![r] = "ranging"]
    /\ cchan' = [cchan EXCEPT ![r] = eventChan]
    /\ UNCHANGED <<paceVars, l2Vars, extVars>>
    /\ UNCHANGED <<serverVars, ctxVars, chanVars, runnerVars, config, pc,
                   result, pendingEvents, ifaceVars, lgVars, ticks, sinkVars>>

\* C6 mutant: the collector puts the event it received in front of the
\* pending ones.
C6_Mutant(events, evt) == <<evt>> \o events

\* pendingEvents = append(pendingEvents, evt)
Collect(events, evt) == Append(events, evt)

\* the event collector receives one event and appends it to pendingEvents
collector_recv(r) ==
    /\ ~crashed
    /\ cpc[r] = "ranging"
    /\ cchan[r] # 0
    /\ chanBuf[cchan[r]] # << >>
    /\ pendingEvents' =
         [pendingEvents EXCEPT ![r] = Collect(@, Head(chanBuf[cchan[r]]))]
    /\ chanBuf' = [chanBuf EXCEPT ![cchan[r]] = Tail(@)]
    /\ UNCHANGED <<paceVars, l2Vars, extVars>>
    /\ UNCHANGED <<serverVars, ctxVars, chanLog, dropped, runnerVars,
                   config, pc, result, cpc, cchan, ifaceVars, lgVars,
                   ticks, sinkVars>>

\* the range loop of the event collector ends: channel closed and drained
collector_exit(r) ==
    /\ ~crashed
    /\ cpc[r] = "ranging"
    /\ cchan[r] # 0
    /\ chanClosed[cchan[r]]
    /\ chanBuf[cchan[r]] = << >>
    /\ cpc' = [cpc EXCEPT ![r] = "exited"]
    /\ UNCHANGED <<paceVars, l2Vars, extVars>>
    /\ UNCHANGED <<serverVars, ctxVars, chanVars, runnerVars, config, pc,
                   result, pendingEvents, cchan, ifaceVars, lgVars,
                   ticks, sinkVars>>

\* RunTest reaches a phase: the guards around collectData, the guard
\* phaseDuration == 0 in it, and the phase change event
collectData_enter(r, phase) ==
    /\ ~crashed
    /\ pc[r] = BeforePhase(phase)
    /\ IF PhaseDuration(config[r], phase) = 0
       THEN /\ pc' = [pc EXCEPT ![r] = AfterPhase(phase)]
            /\ UNCHANGED chanVars
       ELSE /\ pc' = [pc EXCEPT ![r] = phase]
            /\ addEvent(Event(EventPhaseChange, <<phaseNames(phase)>>, r, 0))
    /\ UNCHANGED <<paceVars, l2Vars, extVars>>
    /\ UNCHANGED <<serverVars, ctxVars, runnerVars, config, result,
                   pendingEvents, cpc, cchan, ifaceVars, lgVars,
                   ticks, sinkVars>>

\* C7 mutant: collectData reads the load generator in every phase of a
\* load test.
C7_Mutant(r, phase) == config[r].LoadEnabled

\* the condition under which collectData reads the load generator
ReadsLoadGen(r, phase) == phase = PhaseLoad /\ config[r].LoadEnabled

\* the DataPoint collectData builds on a tick; its Timestamp is the time t
\* of the tick, here the number of the tick
DataPoint(r, phase) ==
    [Timestamp |-> ticks[r] + 1,
     Phase |-> phase,
     ThroughputMbps |-> IF ReadsLoadGen(r, phase) THEN GetThroughput ELSE 0,
     ThroughputByInterface |->
         IF ReadsLoadGen(r, phase) THEN GetThroughputByInterface ELSE NilMap,
     TargetThroughputByInterface |->
         IF ReadsLoadGen(r, phase) THEN GetTargetThroughputByInterface
         ELSE NilMap,
     Events |-> pendingEvents[r]]

\* C4 mutant: the tick leaves the events it attached in pendingEvents.
C4_Mutant(events) == events

\* what a tick leaves in pendingEvents
AfterSwap(events) == << >>

\* C19 mutant: a failed power read throws the pending events away.
C19_Mutant(events) == << >>

\* what a tick whose power read failed leaves in pendingEvents: the
\* "continue" comes before they are touched
AfterFailedRead(events) == events

\* C20 mutant: the sink is sent a DataPoint without the time of its tick.
C20_Mutant(dp) == [dp EXCEPT !.Timestamp = 0]

\* the value of "case updateChan <- dp": the DataPoint that was appended
\* to the result
SinkCopy(dp) == dp

\* collectData, case t := <-ticker.C: a failed power read skips the tick,
\* else the DataPoint takes the pending events, is appended to the result
\* and offered to updateChan, which takes it if its forwarder is waiting
\* in the receive
collectData_tick(r, phase, powerOk) ==
    /\ ~crashed
    /\ pc[r] = phase
    /\ Len(result[r]) < MaxPoints
    /\ ticks[r] < MaxTicks
    /\ ticks' = [ticks EXCEPT ![r] = @ + 1]
    /\ IF powerOk
       THEN /\ result' = [result EXCEPT ![r] = Append(@, DataPoint(r, phase))]
            /\ pendingEvents' =
                 [pendingEvents EXCEPT ![r] = AfterSwap(pendingEvents[r])]
            /\ IF upc[r] = "recv"
               THEN /\ upc' = [upc EXCEPT ![r] = "have"]
                    /\ udp' = [udp EXCEPT
                                 ![r] = SinkCopy(DataPoint(r, phase))]
               ELSE UNCHANGED <<upc, udp>>
       ELSE /\ pendingEvents' =
                 [pendingEvents EXCEPT
                    ![r] = AfterFailedRead(pendingEvents[r])]
            /\ UNCHANGED <<result, upc, udp>>
    /\ UNCHANGED <<paceVars, l2Vars, extVars>>
    /\ UNCHANGED <<serverVars, ctxVars, chanVars, runnerVars, config, pc, cpc,
                   cchan, ifaceVars, lgVars, updClosed, brokerVars>>

\* collectData, case <-timer.C: the phase is over
collectData_timer(r, phase) ==
    /\ ~crashed
    /\ pc[r] = phase
    /\ pc' = [pc EXCEPT ![r] = AfterPhase(phase)]
    /\ UNCHANGED <<paceVars, l2Vars, extVars>>
    /\ UNCHANGED <<serverVars, ctxVars, chanVars, runnerVars, config, result,
                   pendingEvents, cpc, cchan, ifaceVars, lgVars,
                   ticks, sinkVars>>

\* collectData, case <-ctx.Done(): RunTest returns the partial result; in
\* the Load phase it calls loadCancel() first
collectData_cancelled(r, phase) ==
    /\ ~crashed
    /\ pc[r] = phase
    /\ ctxDone[r]
    /\ pc' = [pc EXCEPT ![r] = "defer"]
    /\ loadDone' = [loadDone EXCEPT
                      ![r] = @ \/ (phase = PhaseLoad /\ LoadStarted(r))]
    /\ rerr' = [rerr EXCEPT ![r] = TRUE]
    /\ UNCHANGED <<paceVars, l2Vars, saveCalls, db, restVars>>
    /\ UNCHANGED <<serverVars, ctxDone, chanVars, runnerVars, config, result,
                   pendingEvents, cpc, cchan, ifaceVars, lgVars,
                   ticks, sinkVars>>

\* the deferred function of RunTest: r.testActive = false,
\* close(r.eventChan), r.eventChan = nil; closing a nil or a closed channel
\* panics
RunTest_defer(r) ==
    /\ ~crashed
    /\ pc[r] = "defer"
    /\ testActive' = FALSE
    /\ IF eventChan = 0 \/ chanClosed[eventChan]
       THEN /\ crashed' = TRUE
            /\ UNCHANGED <<pc, chanClosed, eventChan>>
       ELSE /\ chanClosed' = [chanClosed EXCEPT ![eventChan] = TRUE]
            /\ eventChan' = 0
            /\ pc' = [pc EXCEPT ![r] = "returned"]
            /\ UNCHANGED crashed
    /\ UNCHANGED <<paceVars, l2Vars, extVars>>
    /\ UNCHANGED <<serverVars, ctxVars, chanVars, markers, config, result,
                   pendingEvents, cpc, cchan, ifaceVars, lgVars,
                   ticks, sinkVars>>

----------------------------------------------------------------------------
(* The Load phase: interface goroutines, ramp controllers, workers          *)

\* the pre-delay both goroutines of an interface begin with: with
\* PreTime > 0 the goroutine blocks in
\*   select { <-loadCtx.Done(): return; <-time.After(PreTime): }
\* where Done wins if the context is done already (the timer is new);
\* with PreTime = 0 it goes straight on
PreDelay(r, ic, next) ==
    IF ic.PreTime > 0
    THEN IF LoadCtxDone(r) THEN "returned" ELSE "waiting"
    ELSE next

\* RunTest, lines "Phase 2": the Load sub-context and one goroutine per
\* interface, plus runInterfaceRamping for an interface that ramps. The
\* goroutines are taken up to their first blocking point: a timer armed
\* later only fires later, which the timer actions allow anyway.
RunTest_loadSpawn(r) ==
    /\ ~crashed
    /\ pc[r] = "loadSpawn"
    /\ pc' = [pc EXCEPT ![r] = "loadEnter"]
    /\ IF LoadStarted(r)
       THEN /\ ipc' = [ipc EXCEPT ![r] =
                 [i \in IfIdx |-> IF HasIface(r, i)
                                  THEN PreDelay(r, IC(r, i), "emit")
                                  ELSE "none"]]
            /\ rpc' = [rpc EXCEPT ![r] =
                 [i \in IfIdx |-> IF HasIface(r, i) /\ Ramping(IC(r, i))
                                  THEN PreDelay(r, IC(r, i), "set")
                                  ELSE "none"]]
            /\ rstep' = [rstep EXCEPT ![r] =
                 [i \in IfIdx |-> IF HasIface(r, i) /\ Ramping(IC(r, i))
                                  THEN 1 ELSE 0]]
       ELSE UNCHANGED <<ipc, rpc, rstep>>
    /\ UNCHANGED <<paceVars, l2Vars, extVars>>
    /\ UNCHANGED <<serverVars, ctxVars, chanVars, runnerVars, config, result,
                   pendingEvents, cpc, cchan, loadClock, wrk, lgVars,
                   ticks, sinkVars>>

\* RunTest after the Load phase ended normally: loadCancel() and the
\* 500 ms sleep
RunTest_loadStop(r) ==
    /\ ~crashed
    /\ pc[r] = "loadStop"
    /\ pc' = [pc EXCEPT ![r] = "postEnter"]
    /\ IF LoadStarted(r)
       THEN /\ loadDone' = [loadDone EXCEPT ![r] = TRUE]
            /\ ipc' = [ipc EXCEPT ![r] = WakeIface(r)]
            /\ rpc' = [rpc EXCEPT ![r] = WakeRamp(r)]
       ELSE UNCHANGED <<loadDone, ipc, rpc>>
    /\ UNCHANGED <<paceVars, l2Vars, extVars>>
    /\ UNCHANGED <<serverVars, ctxDone, chanVars, runnerVars, config, result,
                   pendingEvents, cpc, cchan, loadClock, rstep, wrk, lgVars,
                   ticks, sinkVars>>

\* time passes while a goroutine of run r waits for its pre-delay
Advance(r) ==
    /\ ~crashed
    /\ loadClock[r] < MaxTime
    /\ \E i \in IfIdx : ipc[r][i] = "waiting" \/ rpc[r][i] = "waiting"
    /\ loadClock' = [loadClock EXCEPT ![r] = @ + 1]
    /\ UNCHANGED <<paceVars, l2Vars, extVars>>
    /\ UNCHANGED <<serverVars, ctxVars, chanVars, runnerVars, runVars, ipc,
                   rpc, rstep, wrk, lgVars, ticks, sinkVars>>

\* C10 mutant: the timer of the pre-delay fires at once.
C10_Mutant(r, ic) == TRUE

\* the timer of time.After(PreTime) of a goroutine launched when the Load
\* phase started its interfaces has fired
TimerFired(r, ic) == loadClock[r] >= ic.PreTime

\* the pre-delay of the interface goroutine is over
iface_timer(r, i) ==
    /\ ~crashed
    /\ ipc[r][i] = "waiting"
    /\ TimerFired(r, IC(r, i))
    /\ ipc' = [ipc EXCEPT ![r][i] = "emit"]
    /\ UNCHANGED <<paceVars, l2Vars, extVars>>
    /\ UNCHANGED <<serverVars, ctxVars, chanVars, runnerVars, runVars,
                   loadClock, rpc, rstep, wrk, lgVars, ticks, sinkVars>>

\* r.addEvent(EventInterfaceStart, "Interface %s started")
iface_emit(r, i) ==
    /\ ~crashed
    /\ ipc[r][i] = "emit"
    /\ ipc' = [ipc EXCEPT ![r][i] = "start"]
    /\ addEvent(Event(EventInterfaceStart,
                      <<"Interface", DisplayName(IC(r, i).Name), "started">>,
                      r, 0))
    /\ UNCHANGED <<paceVars, l2Vars, extVars>>
    /\ UNCHANGED <<serverVars, ctxVars, runnerVars, runVars, loadClock, rpc,
                   rstep, wrk, lgVars, ticks, sinkVars>>

\* NetworkLoadGenerator.initInterfaceThroughput: a new tracker replaces the
\* entry of the interface
initInterfaceThroughput(ic) ==
    LET name == MeterName(ic.Name)
        initialTarget == IF Ramping(ic) THEN 0 ELSE ic.TargetThroughput
        it == [throughput |-> 0, targetThroughput |-> initialTarget,
               bytesSent |-> 0, lastUpdate |-> wall]
    IN [n \in DOMAIN its \cup {name} |-> IF n = name THEN it ELSE its[n]]

\* NetworkLoadGenerator.SetInterfaceTargetThroughput
SetInterfaceTargetThroughput(ifaceName, mbps) ==
    LET name == MeterName(ifaceName) IN
    IF name \in DOMAIN its
    THEN [its EXCEPT ![name].targetThroughput = mbps]
    ELSE its

\* r.loadGen.Start(loadCtx, perInterfaceConfig) up to <-ctx.Done(): the
\* tracker of the interface is initialised and its workers are started
iface_start(r, i) ==
    /\ ~crashed
    /\ ipc[r][i] = "start"
    /\ ipc' = [ipc EXCEPT ![r][i] = "running"]
    /\ its' = initInterfaceThroughput(IC(r, i))
    /\ wrk' = [wrk EXCEPT ![r][i] = "running"]
    /\ wpc' = [wpc EXCEPT ![r][i] = "top"]
    /\ wdelay' = [wdelay EXCEPT ![r][i] = 0]
    /\ UNCHANGED <<l2Vars, extVars>>
    /\ UNCHANGED <<serverVars, ctxVars, chanVars, runnerVars, runVars,
                   loadClock, rpc, rstep, g, wall, ticks, sinkVars>>

\* Start returns: the context is done, the workers have seen it at the top
\* of their loops (a worker that computed its delay writes its packet
\* first) and wg.Wait() is over
iface_return(r, i) ==
    /\ ~crashed
    /\ ipc[r][i] = "running"
    /\ LoadCtxDone(r)
    /\ wpc[r][i] = "top"
    /\ ipc' = [ipc EXCEPT ![r][i] = "returned"]
    /\ wrk' = [wrk EXCEPT ![r][i] = "exited"]
    /\ wpc' = [wpc EXCEPT ![r][i] = "top"]
    /\ wdelay' = [wdelay EXCEPT ![r][i] = 0]
    /\ UNCHANGED <<l2Vars, extVars>>
    /\ UNCHANGED <<serverVars, ctxVars, chanVars, runnerVars, runVars,
                   loadClock, rpc, rstep, lgVars, ticks, sinkVars>>

\* "Update throughput every second": the meters publish when
\* elapsed >= 1.0
UpdateWindow == 1

RECURSIVE Factorial(_)
Factorial(n) == IF n <= 1 THEN 1 ELSE n * Factorial(n - 1)

\* (float64(bytesSent) * 8.0) / (elapsed * 1_000_000), in a unit in which
\* one packet per MaxWall! seconds is 1: the quotient is exact for every
\* elapsed time of the model
Mbps(bytesSent, elapsed) == (bytesSent * Factorial(MaxWall)) \div elapsed

\* the meter arithmetic common to updateThroughput and
\* updateInterfaceThroughput, on a record with bytesSent, lastUpdate and
\* throughput
Meter(m, bytesSent) ==
    LET elapsed == wall - m.lastUpdate IN
    IF elapsed >= UpdateWindow
    THEN [m EXCEPT !.throughput = Mbps(m.bytesSent + bytesSent, elapsed),
                   !.bytesSent = 0,
                   !.lastUpdate = wall]
    ELSE [m EXCEPT !.bytesSent = m.bytesSent + bytesSent]

\* NetworkLoadGenerator.updateThroughput
updateThroughput(bytesSent) == Meter(g, bytesSent)

\* NetworkLoadGenerator.getOrCreateInterfaceThroughput
getOrCreateInterfaceThroughput(ifaceName) ==
    LET name == MeterName(ifaceName) IN
    IF name \in DOMAIN its
    THEN its[name]
    ELSE [throughput |-> 0, targetThroughput |-> 0, bytesSent |-> 0,
          lastUpdate |-> wall]

\* NetworkLoadGenerator.updateInterfaceThroughput, its per-interface part
updateInterfaceThroughput(ifaceName, bytesSent) ==
    LET name == MeterName(ifaceName)
        it == Meter(getOrCreateInterfaceThroughput(ifaceName), bytesSent)
    IN [n \in DOMAIN its \cup {name} |-> IF n = name THEN it ELSE its[n]]

\* delay of one packet at a target of 1 Mbps, in the unit of the model's
\* delays: 0.95 * time.Second / ((1_000_000 / 8) / workers / packetSize)
\* for the packet size and the worker count of the test
PacketTime == 4

\* C29 mutant: the workers send without rate limiting, whatever the target.
C29_Mutant(ifaceName) == 0

\* NetworkLoadGenerator.getWorkerDelayForInterface: the delay per packet
\* for the target the tracker of the interface holds now
getWorkerDelayForInterface(ifaceName) ==
    LET name == MeterName(ifaceName) IN
    IF name \notin DOMAIN its THEN 0
    ELSE IF its[name].targetThroughput <= 0 THEN 0
    ELSE PacketTime \div its[name].targetThroughput

\* a worker of the interface at the top of its loop: the context is not
\* done, delay := g.getWorkerDelayForInterface(config.PacketSize, ifaceName)
worker_delay(r, i) ==
    /\ ~crashed
    /\ wrk[r][i] = "running"
    /\ ~LoadCtxDone(r)
    /\ wpc[r][i] = "top"
    /\ wpc' = [wpc EXCEPT ![r][i] = "paced"]
    /\ wdelay' = [wdelay EXCEPT
                    ![r][i] = getWorkerDelayForInterface(IC(r, i).Name)]
    /\ UNCHANGED <<serverVars, ctxVars, chanVars, runnerVars, runVars,
                   ifaceVars, lgVars, ticks, sinkVars, extVars, l2Vars>>

\* a worker of the interface writes the packet it computed the delay for
\* (one unit of bytes), counts it with
\* g.updateInterfaceThroughput(ic.Name, n) and is back at the top of its
\* loop; the TCP worker sleeps for the delay before the write, the UDP
\* worker after every tenth packet
worker_send(r, i) ==
    /\ ~crashed
    /\ wrk[r][i] = "running"
    /\ wpc[r][i] = "paced"
    /\ updateThroughput(1).bytesSent <= MaxSends
    /\ updateInterfaceThroughput(IC(r, i).Name, 1)[MeterName(IC(r, i).Name)]
           .bytesSent <= MaxSends
    /\ g' = updateThroughput(1)
    /\ its' = updateInterfaceThroughput(IC(r, i).Name, 1)
    /\ wpc' = [wpc EXCEPT ![r][i] = "top"]
    /\ wdelay' = [wdelay EXCEPT ![r][i] = 0]
    /\ werrs' = [werrs EXCEPT ![r][i] = 0]
    /\ UNCHANGED <<l2Vars, storeVars, dcall, dprev, sleepVars>>
    /\ UNCHANGED <<serverVars, ctxVars, chanVars, runnerVars, runVars,
                   ifaceVars, wall, ticks, sinkVars>>

\* conn.Write of the UDP worker returns an error while the context is not
\* done: the worker logs it, sleeps for 100 milliseconds and is back at
\* the top of its loop ("continue"); it keeps no count of its errors, and
\* werrs records how many writes have failed in a row
worker_fail(r, i) ==
    /\ ~crashed
    /\ wrk[r][i] = "running"
    /\ ~LoadCtxDone(r)
    /\ wpc[r][i] = "paced"
    /\ werrs[r][i] <= maxErrors + 1
    /\ wpc' = [wpc EXCEPT ![r][i] = "top"]
    /\ wdelay' = [wdelay EXCEPT ![r][i] = 0]
    /\ werrs' = [werrs EXCEPT ![r][i] = @ + 1]
    /\ UNCHANGED <<l2Vars, storeVars, dcall, dprev, sleepVars>>
    /\ UNCHANGED <<serverVars, ctxVars, chanVars, runnerVars, runVars,
                   ifaceVars, lgVars, ticks, sinkVars>>

\* conn.Write of a TCP worker does not return: the peer has stopped
\* reading and the send buffer is full; the connection has no write
\* deadline and no other goroutine closes it, so neither the context nor
\* anything else in the process ends the call
worker_block(r, i) ==
    /\ ~crashed
    /\ wrk[r][i] = "running"
    /\ wpc[r][i] = "paced"
    /\ wpc' = [wpc EXCEPT ![r][i] = "blocked"]
    /\ UNCHANGED <<serverVars, ctxVars, chanVars, runnerVars, runVars,
                   ifaceVars, lgVars, ticks, sinkVars, extVars, l2Vars,
                   wdelay>>

\* the worker of the interface can count one more packet within the
\* bounds of the model
CanSend(r, i) ==
    /\ updateThroughput(1).bytesSent <= MaxSends
    /\ updateInterfaceThroughput(IC(r, i).Name, 1)[MeterName(IC(r, i).Name)]
           .bytesSent <= MaxSends

\* the workers of the interface stop sending while the test goes on: they
\* returned (no address, no connection) or their writes fail from now on
worker_stop(r, i) ==
    /\ ~crashed
    /\ wrk[r][i] = "running"
    /\ ~LoadCtxDone(r)
    /\ wrk' = [wrk EXCEPT ![r][i] = "stopped"]
    /\ wpc' = [wpc EXCEPT ![r][i] = "top"]
    /\ wdelay' = [wdelay EXCEPT ![r][i] = 0]
    /\ UNCHANGED <<l2Vars, extVars>>
    /\ UNCHANGED <<serverVars, ctxVars, chanVars, runnerVars, runVars,
                   loadClock, ipc, rpc, rstep, lgVars, ticks, sinkVars>>

\* one second passes on the wall clock
Clock ==
    /\ ~crashed
    /\ wall < MaxWall
    /\ \E r \in Runs, i \in IfIdx : wrk[r][i] \in {"running", "stopped"}
    /\ wall' = wall + 1
    /\ UNCHANGED <<paceVars, l2Vars, extVars>>
    /\ UNCHANGED <<serverVars, ctxVars, chanVars, runnerVars, runVars,
                   ifaceVars, its, g, ticks, sinkVars>>

\* the pre-delay of runInterfaceRamping is over: the loop starts
ramp_timer(r, i) ==
    /\ ~crashed
    /\ rpc[r][i] = "waiting"
    /\ TimerFired(r, IC(r, i))
    /\ rpc' = [rpc EXCEPT ![r][i] = "set"]
    /\ UNCHANGED <<paceVars, l2Vars, extVars>>
    /\ UNCHANGED <<serverVars, ctxVars, chanVars, runnerVars, runVars,
                   loadClock, ipc, rstep, wrk, lgVars, ticks, sinkVars>>

\* stepSize := ic.TargetThroughput / float64(ic.RampSteps); the configured
\* targets of the model are multiples of the step count
stepSize(ic) == ic.TargetThroughput \div ic.RampSteps

\* C24 mutant: every step sets the full target.
C24_Mutant(ic, step) == ic.TargetThroughput

\* currentTarget := stepSize * float64(step)
currentTarget(ic, step) == stepSize(ic) * step

\* one ramp step, first half: SetInterfaceTargetThroughput(ic.Name,
\* currentTarget)
ramp_set(r, i) ==
    /\ ~crashed
    /\ rpc[r][i] = "set"
    /\ rpc' = [rpc EXCEPT ![r][i] = "emit"]
    /\ its' = SetInterfaceTargetThroughput(IC(r, i).Name,
                                           currentTarget(IC(r, i), rstep[r][i]))
    /\ UNCHANGED <<paceVars, l2Vars, extVars>>
    /\ UNCHANGED <<serverVars, ctxVars, chanVars, runnerVars, runVars,
                   loadClock, ipc, rstep, wrk, g, wall, ticks, sinkVars>>

\* one ramp step, second half: the ramp event, then
\* select { <-ctx.Done(): return; <-time.After(stepDuration): }
ramp_emit(r, i) ==
    /\ ~crashed
    /\ rpc[r][i] = "emit"
    /\ rpc' = [rpc EXCEPT
                 ![r][i] = IF LoadCtxDone(r) THEN "returned" ELSE "sleep"]
    /\ addEvent(Event(EventRampStep,
                      <<"Ramp", DisplayName(IC(r, i).Name), rstep[r][i],
                        IC(r, i).RampSteps,
                        currentTarget(IC(r, i), rstep[r][i])>>, r, 0))
    /\ UNCHANGED <<paceVars, l2Vars, extVars>>
    /\ UNCHANGED <<serverVars, ctxVars, runnerVars, runVars, loadClock, ipc,
                   rstep, wrk, lgVars, ticks, sinkVars>>

\* stepDuration has passed: the next step, or the loop is over
ramp_next(r, i) ==
    /\ ~crashed
    /\ rpc[r][i] = "sleep"
    /\ IF rstep[r][i] < IC(r, i).RampSteps
       THEN /\ rstep' = [rstep EXCEPT ![r][i] = @ + 1]
            /\ rpc' = [rpc EXCEPT ![r][i] = "set"]
       ELSE /\ rpc' = [rpc EXCEPT ![r][i] = "complete"]
            /\ UNCHANGED rstep
    /\ UNCHANGED <<paceVars, l2Vars, extVars>>
    /\ UNCHANGED <<serverVars, ctxVars, chanVars, runnerVars, runVars,
                   loadClock, ipc, wrk, lgVars, ticks, sinkVars>>

\* r.addEvent(EventRampStep, "Ramp complete") after the loop
ramp_complete(r, i) ==
    /\ ~crashed
    /\ rpc[r][i] = "complete"
    /\ rpc' = [rpc EXCEPT ![r][i] = "returned"]
    /\ addEvent(Event(EventRampStep,
                      <<"Ramp complete", DisplayName(IC(r, i).Name), 0, 0,
                        IC(r, i).TargetThroughput>>, r, 0))
    /\ UNCHANGED <<paceVars, l2Vars, extVars>>
    /\ UNCHANGED <<serverVars, ctxVars, runnerVars, runVars, loadClock, ipc,
                   rstep, wrk, lgVars, ticks, sinkVars>>


----------------------------------------------------------------------------
(* The telemetry sink: the forwarder of updateChan and server.Broker         *)

\* json.Marshal(dp): the fields tagged omitempty are left out when they are
\* nil or empty
Marshal(dp) ==
    LET always == {"timestamp", "throughput_mbps", "phase"}
        field == [timestamp |-> dp.Timestamp,
                  throughput_mbps |-> dp.ThroughputMbps,
                  phase |-> dp.Phase,
                  throughput_by_interface |-> dp.ThroughputByInterface,
                  target_throughput_by_interface |->
                      dp.TargetThroughputByInterface,
                  events |-> dp.Events]
        optional == {k \in {"throughput_by_interface",
                            "target_throughput_by_interface", "events"} :
                        field[k] # << >>}
    IN [k \in always \cup optional |-> field[k]]

\* fmt.Sprintf("data: %s\n\n", data)
DataMessage(dp) == <<"data", Marshal(dp)>>

\* the forwarder evaluates "for dp := range updateChan": it waits in the
\* receive, or leaves the loop when the channel is closed
forwarder_range(r) ==
    /\ ~crashed
    /\ upc[r] = "loop"
    /\ upc' = [upc EXCEPT ![r] = IF updClosed[r] THEN "exited" ELSE "recv"]
    /\ UNCHANGED <<paceVars, l2Vars, extVars>>
    /\ UNCHANGED <<serverVars, ctxVars, chanVars, runnerVars, runVars,
                   ifaceVars, lgVars, ticks, udp, updClosed, brokerVars>>

\* the forwarder waits in the receive when updateChan is closed
forwarder_exit(r) ==
    /\ ~crashed
    /\ upc[r] = "recv"
    /\ updClosed[r]
    /\ upc' = [upc EXCEPT ![r] = "exited"]
    /\ UNCHANGED <<paceVars, l2Vars, extVars>>
    /\ UNCHANGED <<serverVars, ctxVars, chanVars, runnerVars, runVars,
                   ifaceVars, lgVars, ticks, udp, updClosed, brokerVars>>

\* the forwarder has received a DataPoint: json.Marshal, Sprintf and
\* s.broker.Broadcast(msg), where it blocks until the broker receives
forwarder_broadcast(r) ==
    /\ ~crashed
    /\ upc[r] = "have"
    /\ upc' = [upc EXCEPT ![r] = "send"]
    /\ udp' = [udp EXCEPT ![r] = << >>]
    /\ sendq' = Broadcast(sendq, r, DataMessage(udp[r]))
    /\ UNCHANGED <<paceVars, l2Vars, extVars>>
    /\ UNCHANGED <<serverVars, ctxVars, chanVars, runnerVars, runVars,
                   ifaceVars, lgVars, ticks, updClosed, bpc, bmsg, btodo,
                   clients, sub, sinkLog>>

\* the orders in which "for s := range b.clients" can visit the clients
Orders(S) ==
    {o \in [1..Cardinality(S) -> S] :
        \A j, k \in 1..Cardinality(S) : o[j] = o[k] => j = k}

\* Broker.start, case msg := <-b.messages: the first sender blocked in
\* Broadcast is released and the broker begins to send the message to its
\* clients; without clients it is back in the select at once
broker_recv ==
    /\ ~crashed
    /\ bpc = "select"
    /\ sendq # << >>
    /\ LET m == Head(sendq) IN
         /\ sendq' = Tail(sendq)
         /\ sinkLog' = Append(sinkLog, m)
         /\ IF m.msg = DoneMessage
            THEN /\ pc' = [pc EXCEPT ![m.run] = "done"]
                 /\ UNCHANGED upc
            ELSE /\ upc' = [upc EXCEPT ![m.run] = "loop"]
                 /\ UNCHANGED pc
         /\ IF clients = {}
            THEN UNCHANGED <<bpc, bmsg, btodo>>
            ELSE /\ bpc' = "fanout"
                 /\ bmsg' = m.msg
                 /\ \E o \in Orders(clients) : btodo' = o
    /\ UNCHANGED <<paceVars, l2Vars, extVars>>
    /\ UNCHANGED <<serverVars, ctxVars, chanVars, runnerVars, config, result,
                   pendingEvents, cpc, cchan, ifaceVars, lgVars, ticks, udp,
                   updClosed, clients, sub>>

\* Broker.start, s <- msg: the next client of the loop takes the message
\* when its ServeHTTP waits in the receive
broker_send ==
    /\ ~crashed
    /\ bpc = "fanout"
    /\ sub[Head(btodo)] = "reading"
    /\ sub' = [sub EXCEPT ![Head(btodo)] = "writing"]
    /\ btodo' = Tail(btodo)
    /\ IF Tail(btodo) = << >>
       THEN bpc' = "select" /\ bmsg' = << >>
       ELSE UNCHANGED <<bpc, bmsg>>
    /\ UNCHANGED <<paceVars, l2Vars, extVars>>
    /\ UNCHANGED <<serverVars, ctxVars, chanVars, runnerVars, runVars,
                   ifaceVars, lgVars, ticks, fwdVars, sendq, clients,
                   sinkLog>>

\* Broker.ServeHTTP up to its loop, and Broker.start, case
\* s := <-b.newClients: a browser connects to /events
broker_newClient(c) ==
    /\ ~crashed
    /\ bpc = "select"
    /\ sub[c] = "absent"
    /\ clients' = clients \cup {c}
    /\ sub' = [sub EXCEPT ![c] = "reading"]
    /\ UNCHANGED <<paceVars, l2Vars, extVars>>
    /\ UNCHANGED <<serverVars, ctxVars, chanVars, runnerVars, runVars,
                   ifaceVars, lgVars, ticks, fwdVars, sendq, bpc, bmsg,
                   btodo, sinkLog>>

\* Broker.ServeHTTP: w.Write(msg) and Flush have returned; they return when
\* the connection has taken the bytes
client_written(c) ==
    /\ ~crashed
    /\ sub[c] = "writing"
    /\ sub' = [sub EXCEPT ![c] = "reading"]
    /\ UNCHANGED <<paceVars, l2Vars, extVars>>
    /\ UNCHANGED <<serverVars, ctxVars, chanVars, runnerVars, runVars,
                   ifaceVars, lgVars, ticks, fwdVars, sendq, bpc, bmsg,
                   btodo, clients, sinkLog>>

\* the connection of a client is gone: b.defunct <- messageChan, and
\* Broker.start, case s := <-b.defunct, deletes and closes the channel, on
\* which ServeHTTP leaves its loop
broker_defunct(c) ==
    /\ ~crashed
    /\ bpc = "select"
    /\ c \in clients
    /\ clients' = clients \ {c}
    /\ sub' = [sub EXCEPT ![c] = "absent"]
    /\ UNCHANGED <<paceVars, l2Vars, extVars>>
    /\ UNCHANGED <<serverVars, ctxVars, chanVars, runnerVars, runVars,
                   ifaceVars, lgVars, ticks, fwdVars, sendq, bpc, bmsg,
                   btodo, sinkLog>>

----------------------------------------------------------------------------
(* loadgen.Layer2Generator: raw Ethernet frames, paced per burst            *)

\* the interface configurations of a call of StartLayer2
L2Forms == InterfaceForms \ {<< >>}

\* targets written by SetLayer2InterfaceTargetThroughput
L2Targets == {0, 2, 4}

\* config.PacketSize of a call of StartLayer2: below, at and above the
\* smallest payload of an Ethernet frame
L2Payloads == {0, 46, 47}

\* the names of the interfaces of a configuration
L2NamesOf(ics) == {ics[k].Name : k \in 1..Len(ics)}

\* the configuration of interface n in ics
L2ConfigOf(ics, n) == ics[CHOOSE k \in 1..Len(ics) : ics[k].Name = n]

\* StartLayer2 for a configuration whose interfaces have a name, a pcap
\* device and a valid target MAC, with a context that is not done: the
\* generator is created if it is nil; every interface gets its target, a
\* new stop channel, a new handle and new counters, and its workers are
\* launched
StartLayer2(ics, size) ==
    LET names == L2NamesOf(ics) IN
    /\ ~crashed
    /\ layer2Gen' =
         [layer2Gen EXCEPT
            !.nil = FALSE,
            !.targetThroughput =
                [n \in DOMAIN layer2Gen.targetThroughput \cup names |->
                     IF n \in names THEN L2ConfigOf(ics, n).TargetThroughput
                     ELSE layer2Gen.targetThroughput[n]],
            !.stopChans = layer2Gen.stopChans \cup names,
            !.interfaceBytesSent =
                [n \in L2Names |-> IF n \in names THEN 0
                                   ELSE layer2Gen.interfaceBytesSent[n]]]
    /\ stopClosed' = [n \in L2Names |-> IF n \in names THEN FALSE
                                        ELSE stopClosed[n]]
    /\ l2ctxDone' = FALSE
    /\ l2pc' = [n \in L2Names |-> IF n \in names THEN "setup" ELSE l2pc[n]]
    /\ l2ic' = [n \in L2Names |-> IF n \in names THEN L2ConfigOf(ics, n)
                                  ELSE l2ic[n]]
    /\ payloadSize' = [n \in L2Names |-> IF n \in names THEN size
                                         ELSE payloadSize[n]]
    /\ burstDelay' = [n \in L2Names |-> IF n \in names THEN 0
                                        ELSE burstDelay[n]]
    /\ burst' = [n \in L2Names |->
                   IF n \in names
                   THEN [i |-> 0, burstPackets |-> 0, errorCount |-> 0]
                   ELSE burst[n]]
    /\ l2written' = [n \in L2Names |-> IF n \in names THEN 0
                                       ELSE l2written[n]]
    /\ UNCHANGED <<serverVars, ctxVars, chanVars, runnerVars, runVars,
                   ifaceVars, lgVars, ticks, sinkVars, extVars, paceVars>>

\* time one frame takes on the wire at a target of 1 Mbps, in the unit of
\* the model's delays: time.Second / ((1_000_000 / 8) / Workers / wireBytes)
\* for the payload size and the worker count of the test
WireTime == 4

\* const burstSize = 128 in the source: a burst is longer than the errors
\* a worker bears and one frame
burstSize == maxErrors + 2

\* the constants of the wire size of an Ethernet frame
preamble == 8
ethHeader == 14
fcs == 4
ifg == 12
minPayload == 46

\* wireBytes of layer2Worker for a payload size
wireBytes(size) ==
    LET actualPayload == IF size < minPayload THEN minPayload ELSE size
    IN preamble + ethHeader + actualPayload + fcs + ifg

\* the rate limiting setup of layer2Worker: packetDelay for a target
packetDelay(targetThroughput) ==
    IF targetThroughput > 0 THEN WireTime \div targetThroughput ELSE 0

\* layer2Worker before its loop: targetThroughput :=
\* ifaceConfig.TargetThroughput, packetDelay and
\* burstDelay = packetDelay * burstSize, errorCount = 0
layer2Worker_setup(n) ==
    /\ ~crashed
    /\ l2pc[n] = "setup"
    /\ l2pc' = [l2pc EXCEPT ![n] = "loop"]
    /\ burstDelay' = [burstDelay EXCEPT
                        ![n] = packetDelay(l2ic[n].TargetThroughput)
                               * burstSize]
    /\ burst' = [burst EXCEPT
                   ![n] = [i |-> 0, burstPackets |-> 0, errorCount |-> 0]]
    /\ UNCHANGED <<serverVars, ctxVars, chanVars, runnerVars, runVars,
                   ifaceVars, lgVars, ticks, sinkVars, extVars, paceVars,
                   layer2Gen, stopClosed, l2ctxDone, l2ic, payloadSize,
                   l2written>>

\* the select at the top of the loop of layer2Worker lets the worker go on:
\* no case is ready and it takes the default, or the check ticker is ready
\* and is chosen, also among the ready cases of a done context and a
\* closed stop channel; burstBytes = 0, burstPackets = 0 and i := 0
layer2Worker_select(n) ==
    /\ ~crashed
    /\ l2pc[n] = "loop"
    /\ layer2Gen.packetsSent + burstSize <= MaxBursts * burstSize
    /\ l2pc' = [l2pc EXCEPT ![n] = "burst"]
    /\ burst' = [burst EXCEPT ![n].i = 0, ![n].burstPackets = 0]
    /\ UNCHANGED <<serverVars, ctxVars, chanVars, runnerVars, runVars,
                   ifaceVars, lgVars, ticks, sinkVars, extVars, paceVars,
                   layer2Gen, stopClosed, l2ctxDone, l2ic, burstDelay,
                   payloadSize, l2written>>

\* one turn of the burst loop: handle.WritePacketData(packetData) takes
\* the frame (ok), which an open handle alone can do, or returns an error;
\* after more than maxErrors errors in a row the worker returns from
\* inside the burst, else it backs off for 10 microseconds and goes on
layer2Worker_write(n, ok) ==
    /\ ~crashed
    /\ l2pc[n] = "burst"
    /\ burst[n].i < burstSize
    /\ ok => ~stopClosed[n]
    /\ IF ok
       THEN /\ burst' = [burst EXCEPT ![n].i = @ + 1,
                                      ![n].burstPackets = @ + 1,
                                      ![n].errorCount = 0]
            /\ l2written' = [l2written EXCEPT ![n] = @ + 1]
            /\ UNCHANGED l2pc
       ELSE /\ burst' = [burst EXCEPT
                           ![n].i = IF burst[n].errorCount + 1 > maxErrors
                                    THEN @ ELSE @ + 1,
                           ![n].errorCount = @ + 1]
            /\ l2pc' = [l2pc EXCEPT
                          ![n] = IF burst[n].errorCount + 1 > maxErrors
                                 THEN "returned" ELSE "burst"]
            /\ UNCHANGED l2written
    /\ UNCHANGED <<serverVars, ctxVars, chanVars, runnerVars, runVars,
                   ifaceVars, lgVars, ticks, sinkVars, extVars, paceVars,
                   layer2Gen, stopClosed, l2ctxDone, l2ic, burstDelay,
                   payloadSize>>

\* the burst is over: the counters of the generator and of the interface
\* take burstBytes and burstPackets if a frame was written, and the worker
\* sleeps for burstDelay when rate limiting is on
layer2Worker_flush(n) ==
    LET burstBytes == burst[n].burstPackets * wireBytes(payloadSize[n]) IN
    /\ ~crashed
    /\ l2pc[n] = "burst"
    /\ burst[n].i = burstSize
    /\ layer2Gen' =
         [layer2Gen EXCEPT
            !.bytesSent = @ + burstBytes,
            !.packetsSent = @ + burst[n].burstPackets,
            !.interfaceBytesSent[n] = @ + burstBytes]
    /\ l2pc' = [l2pc EXCEPT
                  ![n] = IF burstDelay[n] > 0 THEN "sleep" ELSE "loop"]
    /\ UNCHANGED <<serverVars, ctxVars, chanVars, runnerVars, runVars,
                   ifaceVars, lgVars, ticks, sinkVars, extVars, paceVars,
                   stopClosed, l2ctxDone, l2ic, burstDelay, burst,
                   payloadSize, l2written>>

\* PreciseSleep(burstDelay) returns
layer2Worker_wake(n) ==
    /\ ~crashed
    /\ l2pc[n] = "sleep"
    /\ l2pc' = [l2pc EXCEPT ![n] = "loop"]
    /\ UNCHANGED <<serverVars, ctxVars, chanVars, runnerVars, runVars,
                   ifaceVars, lgVars, ticks, sinkVars, extVars, paceVars,
                   layer2Gen, stopClosed, l2ctxDone, l2ic, burstDelay, burst,
                   payloadSize, l2written>>

\* layer2Worker returns: the select takes <-ctx.Done() or <-stopChan
layer2Worker_return(n) ==
    /\ ~crashed
    /\ l2pc[n] = "loop"
    /\ l2ctxDone \/ stopClosed[n]
    /\ l2pc' = [l2pc EXCEPT ![n] = "returned"]
    /\ UNCHANGED <<serverVars, ctxVars, chanVars, runnerVars, runVars,
                   ifaceVars, lgVars, ticks, sinkVars, extVars, paceVars,
                   layer2Gen, stopClosed, l2ctxDone, l2ic, burstDelay, burst,
                   payloadSize, l2written>>

\* NetworkLoadGenerator.SetLayer2InterfaceTargetThroughput
SetLayer2InterfaceTargetThroughput(ifaceName, targetMbps) ==
    /\ ~crashed
    /\ IF layer2Gen.nil
       THEN UNCHANGED layer2Gen
       ELSE layer2Gen' =
              [layer2Gen EXCEPT
                 !.targetThroughput =
                    [n \in DOMAIN layer2Gen.targetThroughput \cup {ifaceName}
                       |-> IF n = ifaceName THEN targetMbps
                           ELSE layer2Gen.targetThroughput[n]]]
    /\ UNCHANGED <<serverVars, ctxVars, chanVars, runnerVars, runVars,
                   ifaceVars, lgVars, ticks, sinkVars, extVars, paceVars,
                   stopClosed, l2ctxDone, l2pc, l2ic, burstDelay, burst,
                   payloadSize, l2written>>

\* NetworkLoadGenerator.StopLayer2: every stop channel and every handle of
\* the maps is closed and the maps are made anew
StopLayer2 ==
    /\ ~crashed
    /\ IF layer2Gen.nil
       THEN UNCHANGED <<layer2Gen, stopClosed>>
       ELSE /\ stopClosed' = [n \in L2Names |->
                                 stopClosed[n] \/ n \in layer2Gen.stopChans]
            /\ layer2Gen' = [layer2Gen EXCEPT !.stopChans = {}]
    /\ UNCHANGED <<serverVars, ctxVars, chanVars, runnerVars, runVars,
                   ifaceVars, lgVars, ticks, sinkVars, extVars, paceVars,
                   l2ctxDone, l2pc, l2ic, burstDelay, burst, payloadSize,
                   l2written>>

\* the context StartLayer2 was called with is cancelled
layer2_cancel ==
    /\ ~crashed
    /\ ~l2ctxDone
    /\ ~layer2Gen.nil
    /\ l2ctxDone' = TRUE
    /\ UNCHANGED <<serverVars, ctxVars, chanVars, runnerVars, runVars,
                   ifaceVars, lgVars, ticks, sinkVars, extVars, paceVars,
                   layer2Gen, stopClosed, l2pc, l2ic, burstDelay, burst,
                   payloadSize, l2written>>

----------------------------------------------------------------------------
(* The rate computation of getWorkerDelay and getWorkerDelayForInterface    *)

\* time.Duration is an int64 count of nanoseconds; the model counts ticks
\* in a signed integer of DurationBits bits
DurationBits == 8
MaxDuration == 2 ^ (DurationBits - 1) - 1
MinDuration == -(2 ^ (DurationBits - 1))

\* time.Microsecond and time.Second in ticks; the second of the model is a
\* hundred ticks, so that a Duration holds it
Microsecond == 1
Second == 100

\* targets, worker counts and packet sizes of a call. The targets of the
\* model are in bytes per second, the unit in which target * 1_000_000 / 8
\* is the target itself; handleStart takes any number for a target and for
\* a worker count
DelayTargets == -1..MaxTarget
DelayWorkers == -1..MaxWorkers
DelayPackets == 0..MaxPacket

\* time.Duration(float64(time.Second) / packetsPerSecond) for
\* packetsPerSecond = num / den: the quotient is cut to an integer. When
\* packetsPerSecond is +Inf (a packet size of 0) the quotient is 0. A
\* quotient a Duration cannot hold converts to a value that depends on the
\* implementation: the smallest Duration (amd64) or the largest (arm64)
ToDuration(num, den) ==
    IF den = 0 THEN {0}
    ELSE IF (Second * den) \div num > MaxDuration
         THEN {MinDuration, MaxDuration}
         ELSE {(Second * den) \div num}

\* the end of both functions: no sleep below 10 microseconds, else the
\* delay less 5% for the overhead of the system call
Compensate(delay) ==
    IF delay < 10 * Microsecond THEN 0
    ELSE LET compensatedDelay == (delay * 95) \div 100 IN
         IF compensatedDelay < Microsecond THEN 0 ELSE compensatedDelay

\* the delays getWorkerDelay and getWorkerDelayForInterface can return for
\* a target, a worker count and a packet size:
\*   bytesPerSecond := (target * 1_000_000 / 8) / float64(workers)
\*   packetsPerSecond := bytesPerSecond / float64(packetSize)
delayPerPacket(target, workers, packetSize) ==
    IF target <= 0 \/ workers <= 0 THEN {0}
    ELSE IF packetSize < 0 THEN {Second}
    ELSE {Compensate(delay) : delay \in ToDuration(target, workers * packetSize)}

\* a call of getWorkerDelay or getWorkerDelayForInterface
getWorkerDelay(target, workers, packetSize) ==
    /\ ~crashed
    /\ \E delay \in delayPerPacket(target, workers, packetSize) :
           dcall' = [target |-> target, workers |-> workers,
                     packetSize |-> packetSize, delay |-> delay]
    /\ dprev' = dcall
    /\ UNCHANGED <<serverVars, ctxVars, chanVars, runnerVars, runVars,
                   ifaceVars, lgVars, ticks, sinkVars, paceVars, l2Vars,
                   storeVars, werrs, sleepVars>>

----------------------------------------------------------------------------
(* loadgen.PreciseSleep on Windows: one waitable timer for the process      *)

\* width of the int64 of highResolutionNow, scaled
CounterBits == 6

\* the factor 1e9 of highResolutionNow and perfFreq, the counts of the
\* performance counter in a second: the unit of time is one count
Giga == 4
perfFreq == 4

\* a product of two int64 in Go: the low CounterBits bits, signed
WrapInt(x) ==
    LET m == x % (2 ^ CounterBits)
    IN IF m >= 2 ^ (CounterBits - 1) THEN m - 2 ^ CounterBits ELSE m

\* the quotient of two int64 in Go, rounded towards 0
QuoInt(x, y) == IF x >= 0 THEN x \div y ELSE -((-x) \div y)

\* highResolutionNow(): time.Duration(counter * 1e9 / perfFreq)
highResolutionNow == QuoInt(WrapInt(qpc * Giga), perfFreq)

\* const toleranceNs = 1020000 is the unit of the durations of the model;
\* maxTicksNs * 10 ticks is the longest wait on the timer, scaled
toleranceNs == 1
maxTicks == 9

\* the durations PreciseSleep is called with: none, one below the
\* tolerance of the timer loop and one above it
SleepDurations == {0, 1, 3}

\* PreciseSleep(duration) up to the timer loop. A duration <= 0 returns at
\* once. initHighResTimer creates the timer in the first call, with or
\* without success (created). With the timer the call goes to the timer
\* loop; without it, it sleeps with time.Sleep (duration > 1 ms) and spins
PreciseSleep(w, duration, created) ==
    LET init == IF timerInit = "none"
                THEN (IF created THEN "ok" ELSE "failed")
                ELSE timerInit
    IN
    /\ ~crashed
    /\ spc[w] = "idle"
    /\ timerInit # "none" => created = (timerInit = "ok")
    /\ IF duration <= 0
       THEN /\ sleep' = [sleep EXCEPT
                           ![w] = [entry |-> qpc, duration |-> duration,
                                   target |-> highResolutionNow]]
            /\ UNCHANGED <<spc, timerInit>>
       ELSE /\ timerInit' = init
            /\ sleep' = [sleep EXCEPT
                           ![w] = [entry |-> qpc, duration |-> duration,
                                   target |-> highResolutionNow + duration]]
            /\ spc' = [spc EXCEPT
                         ![w] = IF init = "ok" THEN "loop"
                                ELSE IF duration > toleranceNs THEN "nap"
                                ELSE "spin"]
    /\ UNCHANGED <<serverVars, ctxVars, chanVars, runnerVars, runVars,
                   ifaceVars, lgVars, ticks, sinkVars, paceVars, l2Vars,
                   storeVars, werrs, dcall, dprev, qpc, timer>>

\* one turn of the timer loop up to the wait: with no more than the
\* tolerance left the loop ends; else SetWaitableTimerEx arms the timer of
\* the process for the rest less the tolerance (an armed timer is stopped
\* and armed anew, and is not signaled)
preciseSleepWindows_arm(w) ==
    LET remaining == sleep[w].target - highResolutionNow
        dueTime == IF remaining - toleranceNs > maxTicks THEN maxTicks
                 ELSE remaining - toleranceNs
    IN
    /\ ~crashed
    /\ spc[w] = "loop"
    /\ IF remaining <= toleranceNs
       THEN /\ spc' = [spc EXCEPT ![w] = "spin"]
            /\ UNCHANGED timer
       ELSE /\ spc' = [spc EXCEPT ![w] = "wait"]
            /\ timer' = [due |-> qpc + dueTime, signaled |-> FALSE]
    /\ UNCHANGED <<serverVars, ctxVars, chanVars, runnerVars, runVars,
                   ifaceVars, lgVars, ticks, sinkVars, paceVars, l2Vars,
                   storeVars, werrs, dcall, dprev, qpc, timerInit, sleep>>

\* WaitForSingleObject(highResTimer, INFINITE) returns: the timer is
\* signaled; it is a synchronization timer (no manual reset), so the
\* wait of one thread takes the signal
preciseSleepWindows_wake(w) ==
    /\ ~crashed
    /\ spc[w] = "wait"
    /\ timer.signaled
    /\ timer' = [timer EXCEPT !.signaled = FALSE]
    /\ spc' = [spc EXCEPT ![w] = "loop"]
    /\ UNCHANGED <<serverVars, ctxVars, chanVars, runnerVars, runVars,
                   ifaceVars, lgVars, ticks, sinkVars, paceVars, l2Vars,
                   storeVars, werrs, dcall, dprev, qpc, timerInit, sleep>>

\* time.Sleep(sleepDuration) of the fallback returns
preciseSleepWindows_nap(w) ==
    /\ ~crashed
    /\ spc[w] = "nap"
    /\ spc' = [spc EXCEPT ![w] = "spin"]
    /\ UNCHANGED <<serverVars, ctxVars, chanVars, runnerVars, runVars,
                   ifaceVars, lgVars, ticks, sinkVars, paceVars, l2Vars,
                   storeVars, werrs, dcall, dprev, qpc, timerInit, timer,
                   sleep>>

\* the spin-wait "for highResolutionNow() < target" ends and the call
\* returns
preciseSleepWindows_return(w) ==
    /\ ~crashed
    /\ spc[w] = "spin"
    /\ ~(highResolutionNow < sleep[w].target)
    /\ spc' = [spc EXCEPT ![w] = "idle"]
    /\ UNCHANGED <<serverVars, ctxVars, chanVars, runnerVars, runVars,
                   ifaceVars, lgVars, ticks, sinkVars, paceVars, l2Vars,
                   storeVars, werrs, dcall, dprev, qpc, timerInit, timer,
                   sleep>>

\* sleeper w can take a step: it is in the timer loop and not in a wait,
\* its wait is on a signaled timer, its time.Sleep is over, or its
\* spin-wait reads a counter that has reached the target
Runnable(w) ==
    \/ spc[w] \in {"loop", "nap"}
    \/ spc[w] = "wait" /\ timer.signaled
    \/ spc[w] = "spin" /\ ~(highResolutionNow < sleep[w].target)

\* the performance counter counts; a timer whose due time has come is
\* signaled and is no longer active. A count is about a millisecond and a
\* step of a sleeper takes microseconds, so a sleeper that can take a
\* step does so within the count
QueryPerformanceCounter ==
    /\ ~crashed
    /\ qpc < MaxCounter
    /\ \A w \in Sleepers : ~Runnable(w)
    /\ qpc' = qpc + 1
    /\ timer' = IF timer.due # NoDue /\ qpc + 1 >= timer.due
                THEN [due |-> NoDue, signaled |-> TRUE]
                ELSE timer
    /\ UNCHANGED <<serverVars, ctxVars, chanVars, runnerVars, runVars,
                   ifaceVars, lgVars, ticks, sinkVars, paceVars, l2Vars,
                   storeVars, werrs, dcall, dprev, timerInit, spc, sleep>>
----------------------------------------------------------------------------
(* Specifications                                                           *)

\* the steps of one RunTest execution and of its event collector, but the
\* sampling ticks and the cancellation, and the broker that receives the
\* done message
RunSteps(r) ==
    \/ RunTest_begin(r)
    \/ collector_start(r)
    \/ collector_recv(r)
    \/ collector_exit(r)
    \/ \E phase \in Phases : collectData_enter(r, phase)
    \/ \E phase \in Phases : collectData_timer(r, phase)
    \/ RunTest_loadSpawn(r)
    \/ RunTest_loadStop(r)
    \/ RunTest_defer(r)
    \/ handleStart_done(r, TRUE)
    \/ broker_recv

\* the steps of the goroutine that starts an interface
IfaceSteps(r, i) ==
    \/ iface_emit(r, i)
    \/ iface_start(r, i)
    \/ iface_return(r, i)

\* the steps of runInterfaceRamping
RampSteps(r, i) ==
    \/ ramp_set(r, i)
    \/ ramp_emit(r, i)
    \/ ramp_next(r, i)
    \/ ramp_complete(r, i)

\* the pre-delays
DelaySteps(r, i) ==
    \/ iface_timer(r, i)
    \/ ramp_timer(r, i)

\* a load test on the single interface eth0
OneInterface(cfg) ==
    /\ cfg.LoadEnabled /\ cfg.TargetIP = "ip"
    /\ Len(cfg.InterfaceConfigs) = 1
    /\ cfg.InterfaceConfigs[1].Name = "eth0"
    /\ cfg.InterfaceConfigs[1].TargetThroughput = 4

\* a test without load generation and with its two baselines
BaselineConfig ==
    [PreTestTime |-> 1, Duration |-> 1, PostTestTime |-> 1,
     LoadEnabled |-> FALSE, TargetIP |-> "",
     InterfaceConfigs |-> <<DefaultInterfaceConfig>>]

\* a load test at a fixed target, followed by a baseline
StaticConfigs ==
    {cfg \in TestConfigs :
        /\ OneInterface(cfg)
        /\ cfg.PreTestTime = 0 /\ cfg.PostTestTime = 1
        /\ cfg.InterfaceConfigs[1].RampSteps = 0
        /\ cfg.InterfaceConfigs[1].PreTime = 0}

\* configurations of the runs of Spec
RunConfigs == {BaselineConfig} \cup StaticConfigs

\* The runner and its events. The user asks for a new test only when the
\* goroutines of the earlier ones have all returned, and the tests that
\* follow the first are baselines; the power meter answers every read.
Next ==
    \/ \E cfg \in RunConfigs :
           /\ Quiescent
           /\ accepted > 0 => cfg = BaselineConfig
           /\ handleStart_accept(cfg)
    \/ handleStop
    \/ \E message \in Messages \cup {""} : handleAddMarker(message)
    \/ \E r \in Runs : RunSteps(r)
    \/ \E r \in Runs, phase \in Phases : collectData_cancelled(r, phase)
    \/ \E r \in Runs, phase \in Phases : collectData_tick(r, phase, TRUE)
    \/ \E r \in Runs, i \in IfIdx : IfaceSteps(r, i)

Spec == Init /\ [][Next]_vars

\* configurations of the runs of SpecServer: the Load phase alone, without
\* load generation
ServerConfigs ==
    {cfg \in TestConfigs :
        /\ ~cfg.LoadEnabled /\ cfg.TargetIP = ""
        /\ cfg.PreTestTime = 0 /\ cfg.PostTestTime = 0
        /\ cfg.InterfaceConfigs = <<DefaultInterfaceConfig>>}

\* The admission of tests: start and stop requests arrive at any time, the
\* sampling interval is longer than the tests.
NextServer ==
    \/ \E cfg \in ServerConfigs : handleStart_accept(cfg)
    \/ handleStart_reject
    \/ handleStop
    \/ \E r \in Runs : RunSteps(r)
    \/ \E r \in Runs, phase \in Phases : collectData_cancelled(r, phase)

SpecServer == Init /\ [][NextServer]_vars

\* configurations of the runs of SpecLoad: the Load phase alone, one
\* interface with or without pre-delay and ramp
LoadConfigs ==
    {cfg \in TestConfigs :
        /\ OneInterface(cfg)
        /\ cfg.PreTestTime = 0 /\ cfg.PostTestTime = 0}

\* The start-up of the interfaces in the Load phase, with its pre-delays
\* and its cancellation; the sampling interval is longer than the tests.
NextLoad ==
    \/ \E cfg \in LoadConfigs : Quiescent /\ handleStart_accept(cfg)
    \/ handleStop
    \/ \E r \in Runs : RunSteps(r)
    \/ \E r \in Runs, phase \in Phases : collectData_cancelled(r, phase)
    \/ \E r \in Runs : Advance(r)
    \/ \E r \in Runs, i \in IfIdx : DelaySteps(r, i)
    \/ \E r \in Runs, i \in IfIdx : IfaceSteps(r, i)
    \/ \E r \in Runs, i \in IfIdx : RampSteps(r, i)

SpecLoad == Init /\ [][NextLoad]_vars

\* configurations of the runs of SpecRamp: the Load phase alone, one
\* interface that ramps after a pre-delay
RampConfigs ==
    {cfg \in LoadConfigs :
        /\ Ramping(cfg.InterfaceConfigs[1])
        /\ cfg.InterfaceConfigs[1].PreTime > 0}

\* Ramped load tests, one after the other on the load generator of the
\* process, sampled while they run to their end.
NextRamp ==
    \/ \E cfg \in RampConfigs : Quiescent /\ handleStart_accept(cfg)
    \/ \E r \in Runs : RunSteps(r)
    \/ \E r \in Runs, phase \in Phases : collectData_tick(r, phase, TRUE)
    \/ \E r \in Runs : Advance(r)
    \/ \E r \in Runs, i \in IfIdx : DelaySteps(r, i)
    \/ \E r \in Runs, i \in IfIdx : IfaceSteps(r, i)
    \/ \E r \in Runs, i \in IfIdx : RampSteps(r, i)

SpecRamp == Init /\ [][NextRamp]_vars

\* configurations of the run of SpecMeter: the Load phase alone, two
\* interfaces at a fixed target
MeterConfigs ==
    {cfg \in TestConfigs :
        /\ cfg.LoadEnabled /\ cfg.TargetIP = "ip"
        /\ cfg.PreTestTime = 0 /\ cfg.PostTestTime = 0
        /\ Len(cfg.InterfaceConfigs) = 2
        /\ \A i \in 1..2 : /\ cfg.InterfaceConfigs[i].TargetThroughput = 4
                           /\ cfg.InterfaceConfigs[i].RampSteps = 0
                           /\ cfg.InterfaceConfigs[i].PreTime = 0}

\* the Load phase of run r is under way: its interfaces are started and
\* the events of the start-up have left the channel
Steady(r) ==
    /\ pc[r] = PhaseLoad
    /\ cpc[r] = "ranging" /\ chanBuf[r] = << >>
    /\ \A i \in IfIdx : HasIface(r, i) => ipc[r][i] = "running"

\* the workers send many packets per second: every interface whose workers
\* are sending has counted a packet at the present reading of the clock
AllSent ==
    \A r \in Runs, i \in IfIdx :
        wrk[r][i] = "running"
        => getOrCreateInterfaceThroughput(IC(r, i).Name).lastUpdate = wall

\* The throughput meters: the first test of the process sends on two
\* interfaces while the wall clock runs and the test is sampled, as long
\* as its Load phase lasts. The start-up of the test is short: time passes
\* and packets are counted once it is over, and a second passes when the
\* interfaces that send have sent in it.
NextMeter ==
    \/ \E cfg \in MeterConfigs : accepted = 0 /\ handleStart_accept(cfg)
    \/ \E r \in Runs : RunTest_begin(r)
    \/ \E r \in Runs : collector_start(r)
    \/ \E r \in Runs : collector_recv(r)
    \/ \E r \in Runs, phase \in Phases : collectData_enter(r, phase)
    \/ \E r \in Runs : RunTest_loadSpawn(r)
    \/ \E r \in Runs, phase \in Phases : collectData_tick(r, phase, TRUE)
    \/ \E r \in Runs, i \in IfIdx : iface_emit(r, i)
    \/ \E r \in Runs, i \in IfIdx : iface_start(r, i)
    \/ \E r \in Runs, i \in IfIdx : Steady(r) /\ worker_delay(r, i)
    \/ \E r \in Runs, i \in IfIdx : Steady(r) /\ worker_send(r, i)
    \/ \E r \in Runs, i \in IfIdx : Steady(r) /\ worker_stop(r, i)
    \/ \E r \in Runs : Steady(r) /\ AllSent /\ Clock

SpecMeter == Init /\ [][NextMeter]_vars

\* configurations of the runs of SpecSink: the Load phase alone, no target
\* address, load generation asked for or not
SinkConfigs ==
    {cfg \in TestConfigs :
        /\ cfg.TargetIP = ""
        /\ cfg.PreTestTime = 0 /\ cfg.PostTestTime = 0
        /\ cfg.InterfaceConfigs = <<DefaultInterfaceConfig>>}

\* the steps of the forwarder of updateChan
ForwarderSteps(r) ==
    \/ forwarder_range(r)
    \/ forwarder_exit(r)
    \/ forwarder_broadcast(r)

\* the steps of the broker and of its clients, but the receipt of a message
BrokerSteps ==
    \/ broker_send
    \/ \E c \in Clients : broker_newClient(c)
    \/ \E c \in Clients : client_written(c)
    \/ \E c \in Clients : broker_defunct(c)

\* The telemetry sink: the first test of the process is started and
\* stopped at any time, it is sampled with power reads that may fail, and
\* browsers connect to /events, read slowly and disconnect.
NextSink ==
    \/ \E cfg \in SinkConfigs : accepted = 0 /\ handleStart_accept(cfg)
    \/ handleStart_reject
    \/ handleStop
    \/ \E r \in Runs : RunSteps(r)
    \/ \E r \in Runs, phase \in Phases : collectData_cancelled(r, phase)
    \/ \E r \in Runs, phase \in Phases, powerOk \in BOOLEAN :
          collectData_tick(r, phase, powerOk)
    \/ \E r \in Runs : ForwarderSteps(r)
    \/ BrokerSteps

SpecSink == Init /\ [][NextSink]_vars

\* The scheduler runs every goroutine that can take a step: RunTest and
\* the goroutine of handleStart, the event collector, the forwarder and
\* the broker. Nothing is assumed of the requests, of the ticks and of the
\* connections of the clients: a client may stop reading for ever.
FairSink ==
    /\ \A r \in Runs : WF_vars(RunSteps(r))
    /\ \A r \in Runs :
          WF_vars(\E phase \in Phases : collectData_cancelled(r, phase))
    /\ \A r \in Runs : WF_vars(ForwarderSteps(r))
    /\ WF_vars(broker_recv)
    /\ WF_vars(broker_send)

SpecSinkLive == Init /\ [][NextSink]_vars /\ FairSink

\* Cancellation in the Load phase: the first test of the process is
\* sampled while it runs, and the user stops it, if at all, while it is in
\* its Load phase.
NextCancel ==
    \/ \E cfg \in RunConfigs : accepted = 0 /\ handleStart_accept(cfg)
    \/ cancel # 0 /\ pc[cancel] = PhaseLoad /\ handleStop
    \/ \E r \in Runs : RunSteps(r)
    \/ \E r \in Runs, phase \in Phases : collectData_cancelled(r, phase)
    \/ \E r \in Runs, phase \in Phases : collectData_tick(r, phase, TRUE)
    \/ \E r \in Runs, i \in IfIdx : IfaceSteps(r, i)

SpecCancel == Init /\ [][NextCancel]_vars

\* configurations of the run of SpecPhases: a request that selects no
\* interface, with or without baselines, load generation and target
PhaseConfigs ==
    {cfg \in TestConfigs : cfg.InterfaceConfigs = interfaceConfigs(<< >>)}

\* The phases of a test: the first test of the process, with any of its
\* baselines absent, is sampled while it runs and stopped at any time; its
\* load, if any, goes over the interface the operating system chooses, and
\* the database may fail to save its result.
NextPhases ==
    \/ \E cfg \in PhaseConfigs : accepted = 0 /\ handleStart_accept(cfg)
    \/ handleStop
    \/ \E r \in Runs : RunSteps(r)
    \/ \E r \in Runs : handleStart_done(r, FALSE)
    \/ \E r \in Runs, phase \in Phases : collectData_cancelled(r, phase)
    \/ \E r \in Runs, phase \in Phases : collectData_tick(r, phase, TRUE)
    \/ \E r \in Runs, i \in IfIdx : IfaceSteps(r, i)

SpecPhases == Init /\ [][NextPhases]_vars

\* configurations of the run of SpecPace: the Load phase alone, one
\* interface that ramps
PaceConfigs == {cfg \in LoadConfigs : Ramping(cfg.InterfaceConfigs[1])}

\* The pacing of the UDP and TCP workers: the first test of the process
\* ramps one interface while its workers send and the wall clock runs.
NextPace ==
    \/ \E cfg \in PaceConfigs : accepted = 0 /\ handleStart_accept(cfg)
    \/ \E r \in Runs : RunTest_begin(r)
    \/ \E r \in Runs : collector_start(r)
    \/ \E r \in Runs : collector_recv(r)
    \/ \E r \in Runs, phase \in Phases : collectData_enter(r, phase)
    \/ \E r \in Runs : RunTest_loadSpawn(r)
    \/ \E r \in Runs : Advance(r)
    \/ \E r \in Runs, i \in IfIdx : DelaySteps(r, i)
    \/ \E r \in Runs, i \in IfIdx : iface_emit(r, i)
    \/ \E r \in Runs, i \in IfIdx : iface_start(r, i)
    \/ \E r \in Runs, i \in IfIdx : RampSteps(r, i)
    \/ \E r \in Runs, i \in IfIdx : worker_delay(r, i)
    \/ \E r \in Runs, i \in IfIdx : worker_send(r, i)
    \/ Clock

SpecPace == Init /\ [][NextPace]_vars

\* no worker of the Layer 2 generator is running
L2Idle == \A n \in L2Names : l2pc[n] \in {"none", "returned"}

\* The targets of the Layer 2 generator: it is started on one interface,
\* without a ramp, when no worker of an earlier start is left, the targets
\* of the interfaces it was started on are written and it is stopped,
\* through StopLayer2 or through its context, at any time; the writes of
\* its workers fail on a closed handle only.
NextL2 ==
    \/ \E ics \in L2Forms :
           /\ Len(ics) = 1
           /\ ics[1].RampSteps = 0 /\ ics[1].PreTime = 0
           /\ L2Idle
           /\ StartLayer2(ics, minPayload)
    \/ \E n \in L2Names : layer2Worker_setup(n)
    \/ \E n \in L2Names : layer2Worker_select(n)
    \/ \E n \in L2Names : layer2Worker_write(n, TRUE)
    \/ \E n \in L2Names : stopClosed[n] /\ layer2Worker_write(n, FALSE)
    \/ \E n \in L2Names : layer2Worker_flush(n)
    \/ \E n \in L2Names : layer2Worker_wake(n)
    \/ \E n \in L2Names : layer2Worker_return(n)
    \/ \E n \in L2Names, mbps \in L2Targets :
           l2pc[n] # "none" /\ SetLayer2InterfaceTargetThroughput(n, mbps)
    \/ StopLayer2
    \/ layer2_cancel

SpecL2 == Init /\ [][NextL2]_vars

\* The end of the Load phase: the first test of the process sends on one
\* interface at a fixed target while the wall clock runs, its Load phase
\* ends and its post baseline follows.
NextDrain ==
    \/ \E cfg \in StaticConfigs : accepted = 0 /\ handleStart_accept(cfg)
    \/ \E r \in Runs : RunSteps(r)
    \/ \E r \in Runs, i \in IfIdx : IfaceSteps(r, i)
    \/ \E r \in Runs, i \in IfIdx : worker_delay(r, i)
    \/ \E r \in Runs, i \in IfIdx : worker_send(r, i)
    \/ Clock

SpecDrain == Init /\ [][NextDrain]_vars

\* The write errors of the UDP workers: the first test of the process
\* sends on one interface at a fixed target, and each of its writes is
\* taken or fails.
NextErrors ==
    \/ \E cfg \in StaticConfigs : accepted = 0 /\ handleStart_accept(cfg)
    \/ \E r \in Runs : RunSteps(r)
    \/ \E r \in Runs, i \in IfIdx : IfaceSteps(r, i)
    \/ \E r \in Runs, i \in IfIdx : worker_delay(r, i)
    \/ \E r \in Runs, i \in IfIdx : worker_send(r, i)
    \/ \E r \in Runs, i \in IfIdx : worker_fail(r, i)

SpecErrors == Init /\ [][NextErrors]_vars

\* The shutdown of the load workers: the first test of the process sends
\* on one interface; a write is taken, or it is the write of a TCP worker
\* that does not return. The scheduler runs every goroutine that can take
\* a step, so a worker that can write does, and Start returns when it can.
NextStop ==
    \/ \E cfg \in StaticConfigs : accepted = 0 /\ handleStart_accept(cfg)
    \/ \E r \in Runs : RunSteps(r)
    \/ \E r \in Runs, i \in IfIdx : IfaceSteps(r, i)
    \/ \E r \in Runs, i \in IfIdx :
           wrk[r][i] = "running" /\ CanSend(r, i) /\ worker_delay(r, i)
    \/ \E r \in Runs, i \in IfIdx : worker_send(r, i)
    \/ \E r \in Runs, i \in IfIdx : worker_block(r, i)

SpecStop ==
    /\ Init /\ [][NextStop]_vars
    /\ \A r \in Runs, i \in IfIdx :
          /\ WF_vars(worker_send(r, i))
          /\ WF_vars(iface_return(r, i))

\* The rate computation alone, called with any target, worker count and
\* packet size, one call after the other.
NextDelay ==
    \E target \in DelayTargets, workers \in DelayWorkers,
       packetSize \in DelayPackets :
        getWorkerDelay(target, workers, packetSize)

SpecDelay == Init /\ [][NextDelay]_vars

\* The frames of the Layer 2 generator: it is started on eth0 and on eth1
\* with any payload size, the writes of its workers succeed or fail at any
\* time, and it is stopped through StopLayer2 or through its context.
NextFrames ==
    \/ \E ics \in L2Forms, size \in L2Payloads :
           /\ Len(ics) = 2
           /\ \A k \in 1..2 : /\ ics[k].TargetThroughput = 4
                               /\ ics[k].RampSteps = 0 /\ ics[k].PreTime = 0
           /\ layer2Gen.nil
           /\ StartLayer2(ics, size)
    \/ \E n \in L2Names : layer2Worker_setup(n)
    \/ \E n \in L2Names : layer2Worker_select(n)
    \/ \E n \in L2Names, ok \in BOOLEAN : layer2Worker_write(n, ok)
    \/ \E n \in L2Names : layer2Worker_flush(n)
    \/ \E n \in L2Names : layer2Worker_wake(n)
    \/ \E n \in L2Names : layer2Worker_return(n)
    \/ StopLayer2
    \/ layer2_cancel

SpecFrames == Init /\ [][NextFrames]_vars

\* The shutdown of the Layer 2 workers: a select with several ready cases
\* takes each of them sooner or later, and every call of a worker returns.
SpecFramesFair ==
    /\ SpecFrames
    /\ \A n \in L2Names :
          /\ WF_vars(layer2Worker_setup(n))
          /\ WF_vars(\E ok \in BOOLEAN : layer2Worker_write(n, ok))
          /\ WF_vars(layer2Worker_flush(n))
          /\ WF_vars(layer2Worker_wake(n))
          /\ SF_vars(layer2Worker_return(n))

\* The sleeps of the workers on Windows: two goroutines call PreciseSleep
\* while the performance counter counts, each call early enough to be over
\* before the counter stops. The scheduler runs a goroutine that can take
\* a step, a wait on a signaled timer returns, and time passes.
NextSleep ==
    \/ \E w \in Sleepers, duration \in SleepDurations, created \in BOOLEAN :
           qpc + duration <= MaxCounter /\ PreciseSleep(w, duration, created)
    \/ \E w \in Sleepers : preciseSleepWindows_arm(w)
    \/ \E w \in Sleepers : preciseSleepWindows_wake(w)
    \/ \E w \in Sleepers : preciseSleepWindows_nap(w)
    \/ \E w \in Sleepers : preciseSleepWindows_return(w)
    \/ QueryPerformanceCounter

SpecSleep ==
    /\ Init /\ [][NextSleep]_vars
    /\ WF_vars(QueryPerformanceCounter)
    /\ \A w \in Sleepers :
          /\ WF_vars(preciseSleepWindows_arm(w))
          /\ WF_vars(preciseSleepWindows_wake(w))
          /\ WF_vars(preciseSleepWindows_nap(w))
          /\ WF_vars(preciseSleepWindows_return(w))
----------------------------------------------------------------------------
(* Properties                                                               *)

\* the events of a sequence of DataPoints, read in DataPoint order and then
\* in list order
RECURSIVE Flatten(_)
Flatten(points) ==
    IF points = << >> THEN << >>
    ELSE Head(points).Events \o Flatten(Tail(points))

\* number of positions of s that hold e
Count(e, s) == Cardinality({k \in 1..Len(s) : s[k] = e})

\* s is a subsequence of t
RECURSIVE IsSubseq(_, _)
IsSubseq(s, t) ==
    IF s = << >> THEN TRUE
    ELSE IF t = << >> THEN FALSE
    ELSE IF Head(s) = Head(t) THEN IsSubseq(Tail(s), Tail(t))
    ELSE IsSubseq(s, Tail(t))

\* sum of the values of a map
RECURSIVE MapSum(_)
MapSum(f) ==
    IF DOMAIN f = {} THEN 0
    ELSE LET n == CHOOSE x \in DOMAIN f : TRUE
         IN f[n] + MapSum([x \in DOMAIN f \ {n} |-> f[x]])

\* run r was accepted and its RunTest has not returned
InRunTest(r) == pc[r] \notin {"idle", "returned", "signal", "done"}

\* RunTest of run r has returned: its result is complete
Returned(r) == pc[r] \in {"returned", "signal", "done"}

\* the messages of the phase events of a result
PhaseMessages(points) ==
    LET evs == SelectSeq(Flatten(points),
                         LAMBDA e : e.Type = EventPhaseChange)
    IN [k \in 1..Len(evs) |-> evs[k].Message]

\* C1: a start request that arrives while the RunTest of an earlier accepted
\* run has not returned is rejected, so that at most one accepted run is
\* inside RunTest at any time, also after a stop request.
C1_OneRunAtATime == Cardinality({r \in Runs : InRunTest(r)}) <= 1

\* C2: when a stop request has been answered, every accepted run that was
\* not yet signalled done has its root context cancelled, whatever starts
\* and stops came before.
C2_StopCancelsRun ==
    lastResp[1] = "stop" =>
        \A r \in 1..accepted : pc[r] # "done" => ctxDone[r]

\* C3: a run with pre, load and post durations all > 0 that is not cancelled
\* returns a result whose phase events are exactly pre, load, post, once
\* each.
C3_PhaseSequence ==
    \A r \in Runs :
        (/\ Returned(r) /\ ~ctxDone[r]
         /\ config[r].PreTestTime > 0 /\ config[r].Duration > 0
         /\ config[r].PostTestTime > 0)
        => PhaseMessages(result[r]) =
             <<<<phaseNames(PhasePreTest)>>, <<phaseNames(PhaseLoad)>>,
               <<phaseNames(PhasePostTest)>>>>

\* C4: an event placed on the event channel is attached to at most one
\* DataPoint of the result, and never twice.
C4_AttachedAtMostOnce ==
    \A r \in Runs : \A k \in 1..Len(chanLog[r]) :
        Count(chanLog[r][k], Flatten(result[r])) <= 1

\* C4 witness: both DataPoints of a result carry events.
C4_Witness ==
    \E r \in Runs :
        /\ Len(result[r]) = 2
        /\ result[r][1].Events # << >>
        /\ result[r][2].Events # << >>

\* C5: when the event channel of a run never filled up, every event placed
\* on it appears exactly once in the DataPoints of the run's result; stated
\* for the runs that end without cancellation.
C5_EveryEventAttached ==
    \A r \in Runs :
        (Returned(r) /\ ~ctxDone[r] /\ ~dropped[r])
        => \A k \in 1..Len(chanLog[r]) :
             Count(chanLog[r][k], Flatten(result[r])) = 1

\* C6: the events of the DataPoints of a result, concatenated in DataPoint
\* order, are a subsequence of the events in the order in which they were
\* placed on the run's event channel.
C6_OrderPreserved ==
    \A r \in Runs : IsSubseq(Flatten(result[r]), chanLog[r])

\* C6 witness: a result holds two events that were enqueued one after the
\* other.
C6_Witness ==
    \E r \in Runs : Len(Flatten(result[r])) >= 2 /\ Len(chanLog[r]) >= 2

\* C7: a DataPoint of the pre or post phase, or of a run with
\* LoadEnabled = false, has nil throughput maps and a total throughput of 0.
C7_NoLoadNoThroughput ==
    \A r \in Runs : \A k \in 1..Len(result[r]) :
        LET d == result[r][k] IN
        (d.Phase \in {PhasePreTest, PhasePostTest} \/ ~config[r].LoadEnabled)
        => /\ d.ThroughputByInterface = NilMap
           /\ d.TargetThroughputByInterface = NilMap
           /\ d.ThroughputMbps = 0

\* C7 witness: a DataPoint of the post phase of a load test, taken while
\* the load generator holds a meter with a target.
C7_Witness ==
    \E r \in Runs : \E k \in 1..Len(result[r]) :
        /\ result[r][k].Phase = PhasePostTest
        /\ config[r].LoadEnabled
        /\ \E n \in DOMAIN its : its[n].targetThroughput > 0

\* C8: in every DataPoint of the Load phase the total throughput is the
\* sum of the per-interface values, up to the skew of one update window:
\* they differ only while every interface value that counts is at most one
\* update window older than the total, also after the workers of an
\* interface stopped.
C8_TotalIsSum ==
    [][\A r \in Runs :
         (/\ pc[r] = PhaseLoad /\ config[r].LoadEnabled
          /\ Len(result'[r]) = Len(result[r]) + 1)
         => LET d == result'[r][Len(result'[r])] IN
            \/ d.ThroughputMbps = MapSum(d.ThroughputByInterface)
            \/ \A n \in DOMAIN its :
                 its[n].throughput > 0
                 => g.lastUpdate - its[n].lastUpdate <= UpdateWindow]_vars

\* the targets of interface name in the Load DataPoints that report it
Targets(points, name) ==
    LET ps == SelectSeq(points,
                LAMBDA d : name \in DOMAIN d.TargetThroughputByInterface)
    IN [k \in 1..Len(ps) |-> ps[k].TargetThroughputByInterface[name]]

\* C9: for an interface with N ramp steps and target T the targets reported
\* in the successive DataPoints of a run never decrease and are all in
\* {0, T/N, 2T/N, ..., T}, in every run on the load generator.
C9_TargetsRampUp ==
    \A r \in Runs : \A i \in IfIdx :
        (HasIface(r, i) /\ Ramping(IC(r, i)))
        => LET ts == Targets(result[r], MeterName(IC(r, i).Name)) IN
           /\ \A k \in 1..Len(ts) :
                ts[k] \in {currentTarget(IC(r, i), step) :
                             step \in 0..IC(r, i).RampSteps}
           /\ \A k \in 1..(Len(ts) - 1) : ts[k] <= ts[k + 1]

\* the goroutines of interface i of run r are past their pre-delay
PastPreDelay(r, i) ==
    \/ ipc[r][i] \in {"emit", "start", "running"}
    \/ wrk[r][i] # "none"
    \/ rpc[r][i] \in {"set", "emit", "sleep", "complete"}
    \/ \E k \in 1..Len(chanLog[r]) :
         chanLog[r][k].Type \in {EventInterfaceStart, EventRampStep}

\* C10: for an interface with pre-delay D > 0, the iface_start event, the
\* start of the workers and the first ramp step happen only when D has
\* elapsed since the Load phase started its interfaces; when the Load
\* sub-context is cancelled before, both goroutines have returned and none
\* of the three ever happens.
C10_PreDelayHonoured ==
    \A r \in Runs : \A i \in IfIdx :
        (HasIface(r, i) /\ IC(r, i).PreTime > 0
         /\ loadClock[r] < IC(r, i).PreTime)
        => /\ ~PastPreDelay(r, i)
           /\ LoadCtxDone(r) => /\ ipc[r][i] \in {"none", "returned"}
                                /\ rpc[r][i] \in {"none", "returned"}

\* C10 witness: an interface with a pre-delay has started its workers and
\* taken its first ramp step, after the delay.
C10_Witness ==
    \E r \in Runs :
        /\ HasIface(r, 1) /\ IC(r, 1).PreTime > 0
        /\ wrk[r][1] = "running"
        /\ rpc[r][1] = "sleep"
        /\ loadClock[r] >= IC(r, 1).PreTime

\* the done message of run r has been received from b.messages: its
\* Broadcast has returned
DoneDelivered(r) ==
    \E k \in 1..Len(sinkLog) :
        sinkLog[k] = [run |-> r, msg |-> DoneMessage]

\* C11: when a stop request has cancelled the root context of a run, the
\* done message of that run is eventually delivered to the broker, in
\* whichever phase the run was and whatever the clients of the broker do.
C11_DoneAfterStop ==
    \A r \in Runs : ctxDone[r] ~> DoneDelivered(r)

\* number of done messages of run r that were handed to Broadcast: those
\* the broker has received and those that still wait in Broadcast
DoneEmitted(r) ==
    LET all == sinkLog \o sendq
    IN Cardinality({k \in 1..Len(all) :
                      all[k] = [run |-> r, msg |-> DoneMessage]})

\* C12: the done message is emitted exactly once for every accepted run
\* whose goroutine has come to its end, whether RunTest completed its
\* phases or was cancelled, never before, and never for a start request
\* that was rejected (which is no run).
C12_DoneExactlyOnce ==
    /\ \A r \in Runs :
         DoneEmitted(r) = IF pc[r] \in {"signal", "done"} THEN 1 ELSE 0
    /\ \A r \in Runs : r > accepted => pc[r] = "idle"
    /\ \A k \in 1..Len(sinkLog) : sinkLog[k].run \in 1..accepted

\* C12 witness: two runs have ended and their done messages are delivered,
\* one run was cancelled and the other completed, and the last start
\* request was rejected.
C12_Witness ==
    /\ \E q, r \in Runs :
         /\ pc[q] = "done" /\ ctxDone[q]
         /\ pc[r] = "done" /\ ~ctxDone[r]
    /\ lastResp = <<"start", "Test already running">>

\* C13: no DataPoint of a run is delivered to the broker after the done
\* message of that run has been delivered.
C13_DoneIsTerminal ==
    \A j, k \in 1..Len(sinkLog) :
        (j < k /\ sinkLog[j].msg = DoneMessage)
        => sinkLog[k].run # sinkLog[j].run

\* C14: IsTestActive() is true if and only if the RunTest of some accepted
\* run has started and has not returned, as long as the process runs.
C14_ActiveIffRunning ==
    ~crashed =>
        (IsTestActive <=>
            \E r \in Runs : pc[r] \notin {"idle", "spawned", "returned",
                                           "signal", "done"})

\* a step in which handleAddMarker answers a request
MarkerStep ==
    /\ lastResp'[1] = "marker"
    /\ lastResp' # lastResp \/ markers' # markers

\* C15: a marker is accepted only if a test is active at that moment and
\* its message is not empty, and an accepted marker has been placed on the
\* event channel as a custom event with that message; a rejected marker
\* enqueues no event and leaves the result, the pending events and the
\* phase of every run unchanged.
C15_MarkerIntake ==
    [][MarkerStep =>
         IF lastResp'[2] = "Marker added"
         THEN /\ IsTestActive
              /\ eventChan # 0
              /\ \E message \in Messages :
                   /\ message # ""
                   /\ chanLog'[eventChan] =
                        Append(chanLog[eventChan],
                               Event(EventCustom, <<message>>, eventChan,
                                     markers'))
                   /\ chanBuf'[eventChan] =
                        Append(chanBuf[eventChan],
                               Event(EventCustom, <<message>>, eventChan,
                                     markers'))
         ELSE UNCHANGED <<chanBuf, chanLog, markers, result, pendingEvents,
                          pc>>]_vars

\* C15 witness: a marker was accepted and is on the event channel of its
\* run, and a later marker was rejected because no test was active.
C15_Witness ==
    /\ lastResp = <<"marker", "No test running">>
    /\ \E r \in Runs : \E k \in 1..Len(chanLog[r]) :
         chanLog[r][k].Type = EventCustom

\* the markers of run r that were accepted after the Load phase began (its
\* phase event precedes them on the channel) and are in no DataPoint yet
LoadMarkersWaiting(r) ==
    {chanLog[r][k] : k \in
        {k \in 1..Len(chanLog[r]) :
            /\ chanLog[r][k].Type = EventCustom
            /\ \E j \in 1..(k - 1) :
                 chanLog[r][j].Message = <<phaseNames(PhaseLoad)>>
            /\ Count(chanLog[r][k], Flatten(result[r])) = 0}}

\* C16: the first DataPoint emitted after a marker was accepted during the
\* Load phase contains the custom event of that marker.
C16_MarkerInNextPoint ==
    [][\A r \in Runs :
         (pc[r] = PhaseLoad /\ Len(result'[r]) = Len(result[r]) + 1)
         => \A ev \in LoadMarkersWaiting(r) :
              Count(ev, result'[r][Len(result'[r])].Events) = 1]_vars

\* C17: when a stop request cancels a run during its Load phase, no
\* DataPoint is appended to the result of the run after the cancellation:
\* the result is the DataPoints recorded before it, and none of them is of
\* the post phase. (The stop requests of SpecCancel arrive in the Load
\* phase.)
C17_NoPointAfterCancel ==
    [][\A r \in Runs :
         ctxDone[r] => Len(result'[r]) <= Len(result[r])]_vars

\* a configuration startTest has to refuse: load generation without a
\* target address (the configurations of the model name no target MAC)
InvalidConfig(cfg) == cfg.LoadEnabled /\ cfg.TargetIP = ""

\* C18: a start request with an invalid configuration starts no run: no
\* RunTest is started for it and the active flag stays false.
C18_InvalidRejected ==
    \A r \in Runs :
        InvalidConfig(config[r]) => pc[r] \in {"idle", "spawned"}

\* C19: a tick whose power read fails appends no DataPoint, sends nothing
\* to the sink, leaves the pending events where they are and leaves the
\* phase; the next tick that is sampled attaches the pending events to its
\* DataPoint.
C19_FailedReadSkipsTick ==
    [][\A r \in Runs :
         ticks'[r] = ticks[r] + 1
         => IF Len(result'[r]) = Len(result[r])
            THEN /\ result'[r] = result[r]
                 /\ pendingEvents'[r] = pendingEvents[r]
                 /\ pc'[r] = pc[r]
                 /\ UNCHANGED <<chanBuf, sinkVars>>
            ELSE /\ Len(result'[r]) = Len(result[r]) + 1
                 /\ result'[r][Len(result'[r])].Events = pendingEvents[r]
                 /\ result'[r][Len(result'[r])].Timestamp = ticks'[r]]_vars

\* C19 witness: a power read failed and a later tick of the phase was
\* sampled, with events in its DataPoint.
C19_Witness ==
    \E r \in Runs :
        /\ Len(result[r]) >= 1
        /\ ticks[r] > Len(result[r])
        /\ result[r][Len(result[r])].Timestamp = ticks[r]
        /\ result[r][Len(result[r])].Events # << >>

\* the data messages of run r the broker has received, in order
DeliveredData(r) ==
    LET ms == SelectSeq(sinkLog,
                        LAMBDA m : m.run = r /\ m.msg # DoneMessage)
    IN [k \in 1..Len(ms) |-> ms[k].msg]

\* the data messages of the DataPoints of a result, in order
ResultData(points) == [k \in 1..Len(points) |-> DataMessage(points[k])]

\* C20: the runner never waits for the sink: a tick can be taken whatever
\* the forwarder and the broker do, every DataPoint is in the result
\* whether or not the sink took it, and the DataPoints delivered to the
\* broker are a subsequence, in the same order, of those of the result.
C20_SinkIsSubsequence ==
    \A r \in Runs :
        /\ IsSubseq(DeliveredData(r), ResultData(result[r]))
        /\ \A phase \in Phases :
             (/\ ~crashed /\ pc[r] = phase
              /\ Len(result[r]) < MaxPoints /\ ticks[r] < MaxTicks)
             => ENABLED collectData_tick(r, phase, TRUE)

\* C20 witness: the result holds two DataPoints, the sink did not take the
\* first and the second has been delivered to the broker.
C20_Witness ==
    \E r \in Runs :
        /\ Len(result[r]) = 2
        /\ DeliveredData(r) = <<DataMessage(result[r][2])>>

\* the keys of the two maps of a DataPoint
MeterKeys(d) ==
    DOMAIN d.ThroughputByInterface \cup DOMAIN d.TargetThroughputByInterface

\* C21: the load generator of a run is fresh: the DataPoints of a run
\* report only the meters of interfaces of this run's configuration that
\* this run has started, never a meter, target or throughput an earlier run
\* left in the load generator.
C21_FreshLoadGenerator ==
    [][\A r \in Runs :
         Len(result'[r]) = Len(result[r]) + 1
         => \A n \in MeterKeys(result'[r][Len(result'[r])]) :
              \E i \in IfIdx : /\ HasIface(r, i)
                               /\ MeterName(IC(r, i).Name) = n
                               /\ wrk[r][i] # "none"]_vars

\* C22: when every worker of an interface has exited during the Load phase,
\* the run goes on and the DataPoints that follow report a measured
\* throughput of zero for that interface. Stated for the DataPoints taken
\* when the meter of the interface has not published for two update
\* windows or more, so that the rate of the last window before the exit is
\* not held against the code.
C22_ZeroAfterWorkersExit ==
    [][\A r \in Runs : \A i \in IfIdx :
         (/\ pc[r] = PhaseLoad /\ config[r].LoadEnabled
          /\ HasIface(r, i) /\ wrk[r][i] = "stopped"
          /\ MeterName(IC(r, i).Name) \in DOMAIN its
          /\ wall - its[MeterName(IC(r, i).Name)].lastUpdate
               >= 2 * UpdateWindow
          /\ Len(result'[r]) = Len(result[r]) + 1)
         => /\ pc'[r] = PhaseLoad
            /\ result'[r][Len(result'[r])]
                 .ThroughputByInterface[MeterName(IC(r, i).Name)] = 0]_vars

\* the configuration of a request that selects no interface
NoSelection(cfg) == cfg.InterfaceConfigs = interfaceConfigs(<< >>)

\* the iface_start events placed on the channel of run r
IfaceStartEvents(r) ==
    SelectSeq(chanLog[r], LAMBDA e : e.Type = EventInterfaceStart)

RampMessages(points, r, name) ==
    LET evs == SelectSeq(Flatten(points),
                 LAMBDA e : /\ e.Type = EventRampStep /\ e.Src = r
                            /\ e.Message[2] = DisplayName(name))
    IN [k \in 1..Len(evs) |-> evs[k].Message]

\* the messages of the N step events of a ramp: step k of N with the
\* target k x T/N
StepMessages(ic) ==
    [k \in 1..ic.RampSteps |->
        <<"Ramp", DisplayName(ic.Name), k, ic.RampSteps,
          (k * ic.TargetThroughput) \div ic.RampSteps>>]

\* the message of the event that follows the last step
CompleteMessage(ic) ==
    <<"Ramp complete", DisplayName(ic.Name), 0, 0, ic.TargetThroughput>>

\* the ramp of interface i of run r has finished inside the Load phase,
\* uncancelled
RampFinished(r, i) ==
    /\ HasIface(r, i) /\ Ramping(IC(r, i))
    /\ rpc[r][i] = "returned" /\ ~LoadCtxDone(r)

\* every event placed on the channel of run r is in a DataPoint
AllAttached(r) ==
    /\ ~dropped[r]
    /\ chanBuf[r] = << >>
    /\ pendingEvents[r] = << >>

PhaseRank(phase) ==
    CASE phase = PhasePreTest -> 1
      [] phase = PhaseLoad -> 2
      [] phase = PhasePostTest -> 3

\* the duration a configuration gives a phase
ConfiguredDuration(cfg, phase) ==
    CASE phase = PhasePreTest -> cfg.PreTestTime
      [] phase = PhaseLoad -> cfg.Duration
      [] phase = PhasePostTest -> cfg.PostTestTime

\* C25: the phases are linear: in every result the phases of the
\* DataPoints never go backwards in the order pre, load, post, the run
\* itself is never in a phase of duration 0, and such a phase contributes
\* neither a phase event nor a DataPoint.
C25_PhasesLinear ==
    \A r \in Runs :
        /\ \A j, k \in 1..Len(result[r]) :
             j < k => PhaseRank(result[r][j].Phase)
                        <= PhaseRank(result[r][k].Phase)
        /\ \A phase \in Phases :
             (pc[r] # "idle" /\ ConfiguredDuration(config[r], phase) = 0)
             => /\ pc[r] # phase
                /\ \A k \in 1..Len(result[r]) : result[r][k].Phase # phase
                /\ \A k \in 1..Len(chanLog[r]) :
                     chanLog[r][k].Message # <<phaseNames(phase)>>

\* C25 witness: a run without pre-test baseline has returned with a
\* DataPoint of the Load phase followed by one of the post phase.
C25_Witness ==
    \E r \in Runs :
        /\ Returned(r) /\ config[r].PreTestTime = 0
        /\ Len(result[r]) = 2
        /\ result[r][1].Phase = PhaseLoad
        /\ result[r][2].Phase = PhasePostTest

\* C26: the events attached to the DataPoint of a tick are exactly the
\* events enqueued after the previous DataPoint and up to that tick: when a
\* DataPoint is emitted, every event that has been placed on the channel of
\* the run is in that DataPoint or in an earlier one, none is left for a
\* later one.
C26_EventsOfTheTick ==
    [][\A r \in Runs :
         Len(result'[r]) = Len(result[r]) + 1
         => \A k \in 1..Len(chanLog[r]) :
              Count(chanLog[r][k], Flatten(result'[r])) = 1]_vars

\* the ramp events that run r has placed on its channel
RampLog(r) ==
    SelectSeq(chanLog[r], LAMBDA e : e.Type = EventRampStep /\ e.Src = r)

\* C27: the ramp controller takes its steps in the order k = 1..N, sets
\* the target of a step before it emits the event of that step and emits
\* the ramp-complete event only after step N; once the Load sub-context is
\* cancelled it sets no target and emits no ramp-complete event any more,
\* and no ramp event but that of the step whose target it had set when
\* the context was cancelled.
C27_RampStopsAtCancel ==
    [][\A r \in Runs : \A i \in IfIdx :
         (HasIface(r, i) /\ Ramping(IC(r, i)) /\ rpc'[r][i] # "none")
         => /\ rstep'[r][i] # rstep[r][i]
                 => /\ rstep'[r][i] = rstep[r][i] + 1
                    /\ rstep'[r][i] <= IC(r, i).RampSteps
            /\ Len(RampLog(r))' > Len(RampLog(r))
                 => \/ rpc[r][i] = "emit"
                    \/ /\ rpc[r][i] = "complete"
                       /\ rstep[r][i] = IC(r, i).RampSteps
            /\ LoadCtxDone(r)
                 => /\ ~(rpc[r][i] = "set" /\ rpc'[r][i] = "emit")
                    /\ ~(rpc[r][i] = "complete" /\ rpc'[r][i] = "returned")
                    /\ rpc[r][i] # "emit"
                         => Len(RampLog(r))' = Len(RampLog(r))]_vars

\* C28: between the k-th and the (k+1)-th step of the ramp controller of
\* an interface, the active target the load generator publishes for the
\* interface and its workers use is k x T/N, however the controller and
\* the start-up of the interface are interleaved.
C28_TargetAfterStep ==
    \A r \in Runs : \A i \in IfIdx :
        (/\ HasIface(r, i) /\ Ramping(IC(r, i)) /\ ~LoadCtxDone(r)
         /\ rpc[r][i] \in {"emit", "sleep", "complete"}
         /\ wrk[r][i] = "running")
        => its[MeterName(IC(r, i).Name)].targetThroughput
             = (rstep[r][i] * IC(r, i).TargetThroughput)
                 \div IC(r, i).RampSteps

\* the delay per packet a worker paces with for a target, by the formula
\* of the rate computation
PacedFor(target) == IF target <= 0 THEN 0 ELSE PacketTime \div target

\* the target the tracker of interface i of run r holds
ActiveTarget(r, i) == its[MeterName(IC(r, i).Name)].targetThroughput

BurstDelayFor(targetThroughput) ==
    IF targetThroughput > 0
    THEN (WireTime \div targetThroughput) * burstSize
    ELSE 0

\* C30: for L2 workers, the delay a worker sleeps for after a burst is the
\* delay for the target the Layer 2 generator holds for the interface at
\* that moment, which is the target of the latest
\* SetLayer2InterfaceTargetThroughput.
C30_BurstPacedForTarget ==
    [][\A n \in L2Names :
         (l2pc[n] = "burst" /\ l2pc'[n] = "sleep")
         => burstDelay[n] = BurstDelayFor(layer2Gen.targetThroughput[n])]_vars

\* C40: for every interface with ramping, the first step of the ramp
\* controller sets its target only when the goroutine of the interface has
\* enqueued the interface-start event and Start has registered the meter of
\* the interface.
C40_StartBeforeFirstStep ==
    [][\A r \in Runs : \A i \in IfIdx :
         (/\ HasIface(r, i) /\ Ramping(IC(r, i))
          /\ rpc[r][i] = "set" /\ rpc'[r][i] = "emit" /\ rstep[r][i] = 1)
         => ipc[r][i] \in {"running", "returned"}]_vars

\* C38: no event is placed on a closed event channel, and the deferred
\* function of a run closes the channel that run created, which is neither
\* nil nor closed already nor the channel of another run.
C38_ChannelLifecycle ==
    [][/\ \A c \in Chans : chanLog'[c] # chanLog[c] => ~chanClosed[c]
       /\ \A r \in Runs :
            (pc[r] = "defer" /\ (pc'[r] # "defer" \/ crashed'))
            => /\ eventChan = r
               /\ ~chanClosed[r]
               /\ chanClosed'[r]
               /\ ~crashed'
       /\ \A c \in Chans :
            (chanClosed'[c] /\ ~chanClosed[c])
            => pc[c] = "defer" /\ pc'[c] = "returned"]_vars

\* C39: once the goroutine of handleStart is past RunTest, the result of
\* its run has been handed to the database exactly once if the run was not
\* cancelled and never if it was; before that it has not been handed over;
\* and the step that saves leaves the result as it is and emits the done
\* message whether the save fails or not.
C39_SavedIffCompleted ==
    [][\A r \in Runs :
         /\ saveCalls'[r] =
              IF pc'[r] \in {"signal", "done"}
              THEN (IF ctxDone'[r] THEN 0 ELSE 1)
              ELSE 0
         /\ (pc[r] = "returned" /\ pc'[r] = "signal")
              => /\ result'[r] = result[r]
                 /\ sendq' = Append(sendq, [run |-> r, msg |-> DoneMessage])]_vars

\* C33: once RunTest is in the Post phase no worker of the run writes a
\* packet (the byte counters of the generator stay as they are) and no
\* meter of an interface is updated.
C33_QuietInPost ==
    [][\A r \in Runs :
         pc[r] = PhasePostTest
         => /\ g' = g
            /\ (\A i \in IfIdx : ipc'[r][i] = ipc[r][i]) => its' = its]_vars

\* the delay of a call by the formula: 0.95 * rawDelay for
\* rawDelay = 1 s / (target / workers / packetSize), cut to a tick, and
\* no more than a Duration holds
RawDelay(c) == (Second * c.workers * c.packetSize) \div c.target
FormulaDelay(c) ==
    (95 * (IF RawDelay(c) > MaxDuration THEN MaxDuration ELSE RawDelay(c)))
        \div 100

\* C36: the delay of a call is 0 when the target or the worker count is
\* not positive, 0 when rawDelay is below 10 microseconds, and
\* 0.95 * rawDelay (to the tick) otherwise; and of two calls with the same
\* worker count and packet size and with positive targets the one with the
\* larger target never has the larger delay.
C36_DelayFormula ==
    /\ (dcall.target <= 0 \/ dcall.workers <= 0) => dcall.delay = 0
    /\ (dcall.target > 0 /\ dcall.workers > 0)
         => IF RawDelay(dcall) < 10 * Microsecond
            THEN dcall.delay = 0
            ELSE dcall.delay \in {FormulaDelay(dcall) - 1, FormulaDelay(dcall)}
    /\ (/\ dprev.workers = dcall.workers
        /\ dprev.packetSize = dcall.packetSize
        /\ 0 < dprev.target /\ dprev.target <= dcall.target)
         => dcall.delay <= dprev.delay

\* the wire size of a frame with payload size p
FrameBytes(p) == 8 + 14 + (IF p > 46 THEN p ELSE 46) + 4 + 12

\* a worker of interface n is between two bursts, or has returned
L2Settled(n) == l2pc[n] \in {"loop", "sleep", "returned"}

\* C37: once the worker of an interface is not inside a burst, the byte
\* counter of the interface holds 8 + 14 + max(p, 46) + 4 + 12 bytes for
\* every frame its handle has taken and nothing for a failed write, and
\* with all workers outside a burst the total byte counter is the sum of
\* the counters of the interfaces.
C37_WireBytesCounted ==
    /\ \A n \in L2Names :
         L2Settled(n) =>
           layer2Gen.interfaceBytesSent[n]
             = FrameBytes(payloadSize[n]) * l2written[n]
    /\ (\A n \in L2Names : L2Settled(n)) =>
           layer2Gen.bytesSent
             = FrameBytes(payloadSize["eth0"]) * l2written["eth0"]
               + FrameBytes(payloadSize["eth1"]) * l2written["eth1"]

\* C37 holds of the bursts that reach their end: a worker that has not
\* returned from inside a burst has counted every frame.
C37_CountedAtBurstEnd ==
    \A n \in L2Names :
       (L2Settled(n) /\ ~(l2pc[n] = "returned" /\ burst[n].errorCount > maxErrors))
         => layer2Gen.interfaceBytesSent[n]
              = FrameBytes(payloadSize[n]) * l2written[n]

\* the worker of interface n calls WritePacketData in this step
L2Writes(n) == l2pc[n] = "burst" /\ burst'[n] # burst[n]

\* C34: the worker of an interface writes to its pcap handle only while
\* the handle is open, and the handle is closed when the worker returns.
C34_HandleOwnedByWorker ==
    [][\A n \in L2Names :
         /\ L2Writes(n) => ~stopClosed[n]
         /\ (l2pc[n] # "returned" /\ l2pc'[n] = "returned")
               => stopClosed'[n]]_vars

\* C34, the first half alone: no write to a closed pcap handle.
C34_NoWriteAfterClose ==
    [][\A n \in L2Names : L2Writes(n) => ~stopClosed[n]]_vars

\* C34, the second half alone: the pcap handle is closed when its worker
\* returns.
C34_ClosedOnReturn ==
    [][\A n \in L2Names :
         (l2pc[n] # "returned" /\ l2pc'[n] = "returned")
            => stopClosed'[n]]_vars

\* C31: a UDP worker whose writes have failed more than maxErrors times in
\* a row, with a context that is not done, is no longer running; and a
\* write that is taken sets the number of failures in a row to 0.
C31_WorkerExitsAfterErrors ==
    [][\A r \in Runs, i \in IfIdx :
         /\ (werrs'[r][i] > maxErrors /\ ~LoadCtxDone(r)')
               => wrk'[r][i] # "running"
         /\ (wrk[r][i] = "running" /\ wpc[r][i] = "paced"
               /\ g'.bytesSent > g.bytesSent)
               => werrs'[r][i] = 0]_vars

\* C31 holds of the Layer 2 worker: it returns when more than maxErrors
\* writes in a row have failed, and a frame that is taken sets its error
\* count to 0.
C31_Layer2WorkerExits ==
    [][\A n \in L2Names :
         /\ burst'[n].errorCount > maxErrors => l2pc'[n] = "returned"
         /\ l2written'[n] > l2written[n] => burst'[n].errorCount = 0]_vars

\* C32: a worker that is running when the Load context is done returns in
\* the end, and Start has returned only with a done context and with its
\* workers returned.
C32_WorkersReturnOnCancel ==
    /\ \A r \in Runs, i \in IfIdx :
         (LoadCtxDone(r) /\ wrk[r][i] = "running") ~> (wrk[r][i] # "running")
    /\ [](\A r \in Runs, i \in IfIdx :
            ipc[r][i] = "returned"
               => LoadCtxDone(r) /\ wrk[r][i] # "running")

\* C32 holds of the workers whose writes return: a worker that is running
\* when the Load context is done returns, or is inside a write that does
\* not return.
C32_ReturnsUnlessBlocked ==
    \A r \in Runs, i \in IfIdx :
       (LoadCtxDone(r) /\ wrk[r][i] = "running")
          ~> (wrk[r][i] # "running" \/ wpc[r][i] = "blocked")

\* C32 holds of the Layer 2 workers: a worker that is started when the
\* context is done returns in the end.
C32_Layer2WorkersReturn ==
    \A n \in L2Names :
       (l2ctxDone /\ l2pc[n] # "none") ~> (l2pc[n] = "returned")

\* the call of sleeper w is over its time: the counter has reached the
\* entry of the call plus its duration
SleepIsOver(w) == qpc >= sleep[w].entry + sleep[w].duration

\* C35: a call of PreciseSleep that is over its time returns, and a call
\* returns only when it is over its time, whatever the other sleeper does
\* with the timer of the process.
C35_SleepReturnsOnTime ==
    /\ \A w \in Sleepers :
         (spc[w] # "idle" /\ SleepIsOver(w)) ~> (spc[w] = "idle")
    /\ [][\A w \in Sleepers :
            (spc[w] # "idle" /\ spc'[w] = "idle") => SleepIsOver(w)]_vars

\* C35, the second half alone: a call returns only when it is over its
\* time.
C35_NeverEarly ==
    [][\A w \in Sleepers :
         (spc[w] # "idle" /\ spc'[w] = "idle") => SleepIsOver(w)]_vars

\* C35, the wait on the timer: a sleeper waits on a timer that is armed
\* or signaled.
C35_WaiterHasTimer ==
    \A w \in Sleepers :
       spc[w] = "wait" => (timer.due # NoDue \/ timer.signaled)

\* C35, the first half for the calls that do not wait on the timer: a
\* call without the timer that is over its time returns unless its target
\* lies beyond the values of highResolutionNow.
C35_FallbackReturns ==
    \A w \in Sleepers :
       (spc[w] \in {"nap", "spin"} /\ SleepIsOver(w)
           /\ sleep[w].entry + sleep[w].duration < 2 ^ (CounterBits - 1) \div Giga)
         ~> (spc[w] = "idle")

====
